---- MODULE Spec2Model ----
(***************************************************************************)
(* Swim Safe forecast pipeline: the triggers that start a forecast         *)
(* generation (Router, main.ts, Application, EmailService), the render     *)
(* engine adapter (HTMLGeneratorService.exportToImage, PlaywrightConfig),  *)
(* and the colour / alert classifiers.                                     *)
(*                                                                         *)
(* The repository holds two revisions of HTMLGeneratorService,             *)
(* ForecastService and ImageProcessorService side by side.  Where they     *)
(* differ the model carries both, selected by the variable rev:            *)
(*   "inline" - src/src/services/HTMLGeneratorService.ts (exportToImage    *)
(*              written as one method), threshold 0.01                     *)
(*   "split"  - src/unnamed/part_004 (exportToImage split into helpers),   *)
(*              threshold 0.5                                              *)
(***************************************************************************)
EXTENDS Integers, Sequences, FiniteSets, TLC

\* ---------------------------------------------------------------- bounds
NumReqs == 2
NumSends == 2
MaxRuns == 2

\* ------------------------------------------------------------- variables
VARIABLES
  \* --- triggers and forecast runs
  outputExists,        \* public/final/output.png exists on disk
  generatingForecast,  \* Router.generatingForecast: 0 = null, else the run awaited
  isProcessing,        \* main.ts isProcessing
  req,                 \* GET /forecast/image handlers
  snd,                 \* send triggers: GET /send, scheduled preview, manual send
  run,                 \* getForecast invocations, one per trigger that started it
  \* --- one run of HTMLGeneratorService.exportToImage
  rev,                 \* revision of the service: "inline" or "split"
  pc,                  \* position in exportToImage
  log,                 \* the engine and file operations performed so far, in order
  browser,             \* exportToImage's local `browser` is non-null
  context,             \* exportToImage's local `context` is non-null
  chromium,            \* the Chromium process: "none", "open", "closed"
  ctxState,            \* the browsing context: "none", "open", "closed"
  pageState,           \* the page: "none", "open", "closed"
  closeq,              \* close calls still to be made by the current teardown
  after,               \* where exportToImage continues after that teardown
  pending,             \* the error being thrown, "none" if none
  firstFail,           \* the first operation outside teardown that failed
  outcome,             \* "none" while running, then "ok" or the error reported
  elapsed,             \* ms spent waiting for chromium.launch
  waited,              \* ms spent waiting for the '.map-workflow' selector
  launchPending,       \* the launch lost the race and is still pending
  isVisible,           \* result of element.isVisible: "unknown","true","false","error"
  handle,              \* result of page.$: "unknown","found","null","error"
  tried,               \* capture strategies tried, in order
  captured,            \* capture strategies that wrote temp_capture.png
  tempExists,          \* temp_capture.png exists
  outputWritten,       \* this run wrote the final image
  unlinkResult,        \* "none", or what fs.unlink(tempPath) did: "deleted", "failed"
  \* --- colour detection and alert classification
  detRev,              \* revision of ImageProcessorService: "elseif" or "twoifs"
  image,               \* the decoded image, as runs of equal pixels
  threshold,           \* threshold passed to detectColors, in 1/100 %
  dpc,                 \* "idle", "detected", "classified"
  detection,           \* the ColorDetectionResult
  alertStatus,         \* the AlertStatus
  \* --- template mutation
  files,               \* contents of public/template.html and public/index.html
  updates,             \* the updateHTML calls made so far: level, date, input, output
  \* --- one getForecast call, stage by stage
  fpc,                 \* "idle", the stage that is running, or "done"
  started,             \* the stages started so far, in order
  fresult,             \* "none", "ForecastResult" or the error getForecast rejected with
  outFile,             \* public/final/output.png: "absent", "previous", "partial", "new"
  reads,               \* what each reader of output.png found in it
  \* --- the status cache of ForecastService.checkCurrentStatus
  now,                 \* the clock
  lastStatusCheck,     \* time of the last completed status check, 0 if none
  cachedStatus,        \* identity of the cached status object, 0 if none
  getImageCallCount,   \* downloads started so far
  chk,                 \* per caller: calls made and whether one is downloading
  callLog,             \* completed calls: caller, download made, object returned
  \* --- ImageProcessorService.cropImage
  srcImage,            \* the image passed in: format, width, rows of pixels
  cropTop,
  cropBottom,
  cpc,                 \* "idle" or "done"
  cropOut,             \* the image returned; its format is "error" when cropImage threw
  \* --- the resample step of exportToImage
  capturedWidth,       \* width of temp_capture.png as sharp reports it
  capturedHeight,      \* height of temp_capture.png as sharp reports it
  finalWidth,          \* the width argument of exportToImage
  finalHeight,         \* the height argument of exportToImage
  rpc,                 \* "idle" or "done"
  resized,             \* the width and height handed to sharp.resize
  \* --- EmailService: the image attached to a forecast email
  mailRev,             \* revision of EmailService: "cached" or "path"
  mnow,                \* Date.now(), in minutes
  outputGen,           \* which generation's image the output file holds
  imageCache,          \* EmailService.imageCache entry for the output path
  attached,            \* per email sent: the file on disk and the image attached
  \* --- BrowserService as an InitializableService
  initialized,         \* _initialized
  initializing,        \* _initializing
  initializationPromise, \* _initializationPromise: 0 = null, else the run it belongs to
  perform,             \* per run: performInitialization is "none", "pending", "resolved", "rejected"
  doInit,              \* per run: position of doInitialize
  engine,              \* per run: the Chromium it launched is "none", "open", "closed"
  browserRef,          \* this.browser: 0 = null, else the run that launched it
  contextRef,          \* this.context: 0 = null, else the run that created it
  pageRef,             \* this.page: 0 = null, else the run that created it
  calls,               \* the initialize() and reinitialize() calls made so far
  closeReturned,       \* close() has returned and no initialisation was started since
  \* --- EmailService: sending with retries
  msg,                 \* per message: the send/sendWithEmbeddedImage call that carries it;
                       \* thrown is the attempt whose error was rethrown, 0 if none
  metrics              \* EmailService.metrics: emailsSent, emailsFailed

trigVars == <<outputExists, generatingForecast, isProcessing, req, snd, run>>
expVars == <<rev, pc, log, browser, context, chromium, ctxState, pageState, closeq,
             after, pending, firstFail, outcome, elapsed, launchPending, isVisible,
             handle, tried, captured, tempExists, outputWritten, unlinkResult, waited>>
detVars == <<detRev, image, threshold, dpc, detection, alertStatus>>
htmlVars == <<files, updates>>
pipeVars == <<fpc, started, fresult, outFile, reads>>
cropVars == <<srcImage, cropTop, cropBottom, cpc, cropOut>>
resVars == <<capturedWidth, capturedHeight, finalWidth, finalHeight, rpc, resized>>
mailVars == <<mailRev, mnow, outputGen, imageCache, attached>>
svcVars == <<initialized, initializing, initializationPromise, perform, doInit, engine,
             browserRef, contextRef, pageRef, calls, closeReturned>>
retryVars == <<msg, metrics>>
cacheVars == <<now, lastStatusCheck, cachedStatus, getImageCallCount, chk, callLog>>
vars == <<trigVars, expVars, detVars, htmlVars, pipeVars, cacheVars, cropVars, resVars, mailVars, svcVars, retryVars>>

Reqs == 1..NumReqs
Sends == (NumReqs + 1)..(NumReqs + NumSends)
Trig == Reqs \cup Sends

\* ForecastService.getForecast as its callers see it: "pipeline" is download,
\* crop, detection, save, template update and capture; "exportResample" is the
\* write of the final image; "exportFinish" is the temp-file cleanup and the
\* result log that follow it
StageNames == <<"pipeline", "exportResample", "exportFinish">>
NumStages == Len(StageNames)

NoRun == [st |-> "none", stage |-> 0]

Running(t) == run[t].st = "running"
InFlight == {t \in Trig : Running(t)}

\* ------------------------------------------------------------------ Init
TrigState(exists) ==
  /\ outputExists = exists
  /\ generatingForecast = 0
  /\ isProcessing = FALSE
  /\ req = [q \in Reqs |-> [pc |-> "idle", gen |-> 0, resp |-> 0]]
  /\ snd = [s \in Sends |-> [pc |-> "idle", kind |-> "none", key |-> "none", resp |-> 0]]
  /\ run = [t \in Trig |-> NoRun]

Revisions == {"inline", "split"}

ExportState(r, temp) ==
  /\ rev = r
  /\ pc = "idle"
  /\ log = <<>>
  /\ browser = FALSE
  /\ context = FALSE
  /\ chromium = "none"
  /\ ctxState = "none"
  /\ pageState = "none"
  /\ closeq = <<>>
  /\ after = "done"
  /\ pending = "none"
  /\ firstFail = "none"
  /\ outcome = "none"
  /\ elapsed = 0
  /\ waited = 0
  /\ launchPending = FALSE
  /\ isVisible = "unknown"
  /\ handle = "unknown"
  /\ tried = <<>>
  /\ captured = <<>>
  /\ tempExists = temp
  /\ outputWritten = FALSE
  /\ unlinkResult = "none"

NoDetection == [hasRed |-> FALSE, hasYellow |-> FALSE, redPercentage |-> 0,
                yellowPercentage |-> 0, totalPixels |-> 0]
NoStatus == [level |-> "none", label |-> "none"]

DetectState(dr, img, thr) ==
  /\ detRev = dr
  /\ image = img
  /\ threshold = thr
  /\ dpc = "idle"
  /\ detection = NoDetection
  /\ alertStatus = NoStatus

\* an HTML document as updateHTML sees it: for each overlay region the class
\* names that follow "flag-status-item status-overlay", and the date text
Html(red, yellow, white, date) ==
  [flags |-> [red |-> red, yellow |-> yellow, white |-> white], date |-> date]

HtmlState(h) ==
  /\ files = [template |-> h, index |-> h]
  /\ updates = <<>>

PipeState(out) ==
  /\ fpc = "idle"
  /\ started = <<>>
  /\ fresult = "none"
  /\ outFile = out
  /\ reads = <<>>

CacheTtl == 2
NumCallers == 2
Callers == 1..NumCallers

\* a new ForecastService: nothing cached; the clock is past one cache
\* lifetime, as any wall-clock time is
CacheState ==
  /\ now = CacheTtl
  /\ lastStatusCheck = 0
  /\ cachedStatus = 0
  /\ getImageCallCount = 0
  /\ chk = [c \in Callers |-> [pc |-> "idle", calls |-> 0]]
  /\ callLog = <<>>

Image(format, width, rows) == [format |-> format, width |-> width, rows |-> rows]

CropState(img, top, bottom) ==
  /\ srcImage = img
  /\ cropTop = top
  /\ cropBottom = bottom
  /\ cpc = "idle"
  /\ cropOut = Image("none", 0, <<>>)

NoCrop == CropState(Image("png", 1, <<0>>), 0, 0)

ResampleState(cw, ch, fw, fh) ==
  /\ capturedWidth = cw
  /\ capturedHeight = ch
  /\ finalWidth = fw
  /\ finalHeight = fh
  /\ rpc = "idle"
  /\ resized = [width |-> 0, height |-> 0]

NoResample == ResampleState(1, 1, 1, 1)

MailRevisions == {"cached", "path"}
NoEntry == [has |-> FALSE, buffer |-> 0, timestamp |-> 0]

\* a new EmailService: nothing cached, nothing sent; one image is on disk
MailState(r) ==
  /\ mailRev = r
  /\ mnow = 0
  /\ outputGen = 1
  /\ imageCache = NoEntry
  /\ attached = <<>>

NoMail == MailState("cached")

MaxInits == 2
InitRuns == 1..MaxInits

MaxMessages == 2
Messages == 1..MaxMessages

NoCall == [pc |-> "idle", method |-> "none", maxRetries |-> 0, attempt |-> 0,
           transportCalls |-> 0, waits |-> <<>>, thrown |-> 0]

\* a new EmailService: no message sent, the counters at zero
RetryState ==
  /\ msg = [m \in Messages |-> NoCall]
  /\ metrics = [emailsSent |-> 0, emailsFailed |-> 0]

\* a new BrowserService
ServiceState ==
  /\ initialized = FALSE
  /\ initializing = FALSE
  /\ initializationPromise = 0
  /\ perform = [k \in InitRuns |-> "none"]
  /\ doInit = [k \in InitRuns |-> "none"]
  /\ engine = [k \in InitRuns |-> "none"]
  /\ browserRef = 0
  /\ contextRef = 0
  /\ pageRef = 0
  /\ calls = <<>>
  /\ closeReturned = FALSE

PlainHtml == Html(<<"hidden">>, <<"hidden">>, <<"hidden">>, "")

\* the server after construction; no export or detection is under observation
Init ==
  /\ \E exists \in BOOLEAN : TrigState(exists)
  /\ ExportState("split", FALSE)
  /\ DetectState("elseif", <<>>, 50)
  /\ HtmlState(PlainHtml)
  /\ PipeState("absent")
  /\ CacheState
  /\ NoCrop
  /\ NoResample
  /\ NoMail
  /\ ServiceState
  /\ RetryState

\* ForecastService.getForecast is entered: the first stage starts
StartRun(t) == [run EXCEPT ![t] = [st |-> "running", stage |-> 1]]

\* ------------------------------------------------- Router.handleForecastImage
\* a GET /forecast/image request arrives and issues fs.access(pathToFile)
ReqArrive(q) ==
  /\ req[q].pc = "idle"
  /\ req' = [req EXCEPT ![q].pc = "access"]
  /\ UNCHANGED <<outputExists, generatingForecast, isProcessing, snd, run, expVars, detVars, htmlVars, pipeVars, cacheVars, cropVars, resVars, mailVars, svcVars, retryVars>>

\* fs.access succeeded: the file on disk is served
ReqServeExisting(q) ==
  /\ req[q].pc = "access"
  /\ outputExists
  /\ req' = [req EXCEPT ![q] = [pc |-> "done", gen |-> 0, resp |-> 200]]
  /\ UNCHANGED <<outputExists, generatingForecast, isProcessing, snd, run, expVars, detVars, htmlVars, pipeVars, cacheVars, cropVars, resVars, mailVars, svcVars, retryVars>>

\* fs.access rejected: the handler enters its catch block
ReqAccessMissing(q) ==
  /\ req[q].pc = "access"
  /\ ~outputExists
  /\ req' = [req EXCEPT ![q].pc = "catch"]
  /\ UNCHANGED <<outputExists, generatingForecast, isProcessing, snd, run, expVars, detVars, htmlVars, pipeVars, cacheVars, cropVars, resVars, mailVars, svcVars, retryVars>>

\* the guard: the promise a handler in its catch block goes on to await
GuardNoSet(g, q) == 0
GuardAfterCheck(g, q) == IF g = 0 THEN q ELSE g

\* if (!this.generatingForecast) { this.generatingForecast = getForecast()... }
\* await this.generatingForecast
ReqGuard(q) ==
  /\ req[q].pc = "catch"
  /\ LET g == GuardAfterCheck(generatingForecast, q) IN
       /\ generatingForecast' = g
       /\ run' = IF generatingForecast = 0 THEN StartRun(q) ELSE run
       /\ req' = [req EXCEPT ![q] = [pc |-> "waiting",
                                     gen |-> g,
                                     resp |-> 0]]
  /\ UNCHANGED <<outputExists, isProcessing, snd, expVars, detVars, htmlVars, pipeVars, cacheVars, cropVars, resVars, mailVars, svcVars, retryVars>>

\* second fs.access after the awaited generation resolved
ReqRecheck(q) ==
  /\ req[q].pc = "recheck"
  /\ req' = [req EXCEPT ![q].pc = "done",
                        ![q].resp = IF outputExists THEN 200 ELSE 503]
  /\ UNCHANGED <<outputExists, generatingForecast, isProcessing, snd, run, expVars, detVars, htmlVars, pipeVars, cacheVars, cropVars, resVars, mailVars, svcVars, retryVars>>

\* ------------------------------------------------------------ send triggers
SendKinds == {"send", "preview", "manual"}

\* main.ts GET /send, Application.startScheduledEmails (sendPreviewForecast)
\* and Application.runOnce; each reaches EmailService.sendForecastReport,
\* which calls forecastService.getForecast() without consulting any guard
SendArrive(s, kind, keyOk, hasRecipients) ==
  /\ snd[s].pc = "idle"
  /\ IF kind = "send"
       THEN IF ~keyOk
              THEN /\ snd' = [snd EXCEPT ![s] = [pc |-> "done", kind |-> kind,
                                                 key |-> "bad", resp |-> 401]]
                   /\ UNCHANGED <<isProcessing, run>>
              ELSE IF isProcessing
                     THEN /\ snd' = [snd EXCEPT ![s] = [pc |-> "done", kind |-> kind,
                                                        key |-> "ok", resp |-> 429]]
                          /\ UNCHANGED <<isProcessing, run>>
                     ELSE /\ isProcessing' = TRUE
                          /\ snd' = [snd EXCEPT ![s] = [pc |-> "forecast", kind |-> kind,
                                                        key |-> "ok", resp |-> 0]]
                          /\ run' = StartRun(s)
       ELSE IF ~hasRecipients
              THEN /\ snd' = [snd EXCEPT ![s] = [pc |-> "done", kind |-> kind,
                                                 key |-> "none", resp |-> 0]]
                   /\ UNCHANGED <<isProcessing, run>>
              ELSE /\ snd' = [snd EXCEPT ![s] = [pc |-> "forecast", kind |-> kind,
                                                 key |-> "none", resp |-> 0]]
                   /\ run' = StartRun(s)
                   /\ UNCHANGED isProcessing
  /\ UNCHANGED <<outputExists, generatingForecast, req, expVars, detVars, htmlVars, pipeVars, cacheVars, cropVars, resVars, mailVars, svcVars, retryVars>>

\* main.ts: finally { isProcessing = false }, reached by the /send handler only
FlagKept(kind, flag) == flag
FlagAfterFinally(kind, flag) == IF kind = "send" THEN FALSE ELSE flag

\* sendWithEmbeddedImage / sendForecastReportParallel finished
SendMail(s, ok) ==
  /\ snd[s].pc = "mail"
  /\ snd' = [snd EXCEPT ![s].pc = "done", ![s].resp = IF ok THEN 200 ELSE 500]
  /\ isProcessing' = FlagAfterFinally(snd[s].kind, isProcessing)
  /\ UNCHANGED <<outputExists, generatingForecast, req, run, expVars, detVars, htmlVars, pipeVars, cacheVars, cropVars, resVars, mailVars, svcVars, retryVars>>

\* ------------------------------------------------ ForecastService.getForecast
\* .finally(() => { this.generatingForecast = null })
GuardKept(g) == g
GuardAfterFinally(g) == 0

\* what the end of run t does to whoever awaits it
EndRun(t, ok) ==
  IF t \in Reqs
    THEN \* .then(...).finally(...) settles, then the handlers awaiting it resume
         /\ generatingForecast' = GuardAfterFinally(generatingForecast)
         /\ req' = [q \in Reqs |->
                      IF req[q].pc = "waiting" /\ req[q].gen = t
                        THEN IF ok THEN [req[q] EXCEPT !.pc = "recheck"]
                                   ELSE [req[q] EXCEPT !.pc = "done", !.resp = 503]
                        ELSE req[q]]
         /\ UNCHANGED <<snd, isProcessing>>
    ELSE /\ snd' = [snd EXCEPT ![t].pc = IF ok THEN "mail" ELSE "done",
                               ![t].resp = IF ok THEN 0 ELSE 500]
         /\ isProcessing' = IF ok THEN isProcessing
                                  ELSE FlagAfterFinally(snd[t].kind, isProcessing)
         /\ UNCHANGED <<generatingForecast, req>>

\* a stage completes and the next one starts; completing the resample
\* (sharp ... toFile(outputPath)) leaves the output image on disk
StageOk(t) ==
  /\ Running(t)
  /\ run[t].stage < NumStages
  /\ run' = [run EXCEPT ![t].stage = @ + 1]
  /\ outputExists' = (outputExists \/ StageNames[run[t].stage] = "exportResample")
  /\ UNCHANGED <<generatingForecast, isProcessing, req, snd, expVars, detVars, htmlVars, pipeVars, cacheVars, cropVars, resVars, mailVars, svcVars, retryVars>>

\* a stage throws: getForecast logs and rethrows
StageFail(t) ==
  /\ Running(t)
  /\ run' = [run EXCEPT ![t].st = "failed"]
  /\ EndRun(t, FALSE)
  /\ UNCHANGED <<outputExists, expVars, detVars, htmlVars, pipeVars, cacheVars, cropVars, resVars, mailVars, svcVars, retryVars>>

\* the last stage completes and getForecast returns its ForecastResult
RunReturn(t) ==
  /\ Running(t)
  /\ run[t].stage = NumStages
  /\ run' = [run EXCEPT ![t].st = "ok"]
  /\ EndRun(t, TRUE)
  /\ UNCHANGED <<outputExists, expVars, detVars, htmlVars, pipeVars, cacheVars, cropVars, resVars, mailVars, svcVars, retryVars>>

Next ==
  \/ \E q \in Reqs : ReqArrive(q)
  \/ \E q \in Reqs : ReqServeExisting(q)
  \/ \E q \in Reqs : ReqAccessMissing(q)
  \/ \E q \in Reqs : ReqGuard(q)
  \/ \E q \in Reqs : ReqRecheck(q)
  \/ \E s \in Sends, kind \in SendKinds, keyOk \in BOOLEAN, hasRecipients \in BOOLEAN :
        SendArrive(s, kind, keyOk, hasRecipients)
  \/ \E s \in Sends, ok \in BOOLEAN : SendMail(s, ok)
  \/ \E t \in Trig : StageOk(t)
  \/ \E t \in Trig : StageFail(t)
  \/ \E t \in Trig : RunReturn(t)

Spec == Init /\ [][Next]_vars

\* C1: at any moment at most one forecast generation is in progress,
\* whichever trigger started it
AtMostOneGeneration == Cardinality(InFlight) <= 1

\* C2: requests for the image that wait at the same time wait for one and the
\* same generation, that generation is the only one the Router has in
\* progress, and requests that waited for the same generation receive the
\* same response
SingleFlightImage ==
  /\ \A q \in Reqs : req[q].pc = "waiting" =>
        /\ req[q].gen = generatingForecast
        /\ generatingForecast \in Reqs
        /\ Running(generatingForecast)
  /\ Cardinality({t \in Reqs : Running(t)}) <= 1
  /\ \A t \in Reqs : Running(t) => generatingForecast = t
  /\ \A q1, q2 \in Reqs :
        (req[q1].pc = "done" /\ req[q2].pc = "done" /\ req[q1].gen # 0
           /\ req[q1].gen = req[q2].gen) => req[q1].resp = req[q2].resp

\* two requests wait for the same generation at the same time
WitnessTwoWaiters ==
  \E q1, q2 \in Reqs : q1 # q2 /\ req[q1].pc = "waiting" /\ req[q2].pc = "waiting"
                        /\ req[q1].gen = req[q2].gen

\* C23: when a generation started by GET /forecast/image has ended, with a
\* result or with an error, the guard no longer refers to it; every request
\* that waited on a generation that failed has been answered 503; and a
\* request that waits, waits on a generation that is still running, its own
\* if none was in progress when it found the file missing
GuardClearedWhenGenerationEnds ==
  /\ \A t \in Reqs : run[t].st \in {"ok", "failed"} => generatingForecast # t
  /\ generatingForecast # 0 => Running(generatingForecast)
  /\ \A q \in Reqs : (req[q].gen # 0 /\ run[req[q].gen].st = "failed") =>
        (req[q].pc = "done" /\ req[q].resp = 503)
  /\ \A q \in Reqs : req[q].pc = "waiting" => Running(req[q].gen)

\* a generation failed and its request got 503; a later request found no
\* file and started a generation of its own
WitnessRegenerateAfterFailure ==
  \E q1, q2 \in Reqs :
    /\ run[q1].st = "failed" /\ req[q1].pc = "done" /\ req[q1].resp = 503
    /\ req[q2].pc = "waiting" /\ req[q2].gen = q2 /\ Running(q2)
    /\ ~outputExists

\* the /send requests whose send is running
SendsInProgress ==
  {s \in Sends : snd[s].kind = "send" /\ snd[s].pc \in {"forecast", "mail"}}

\* C27: at most one send started by /send is in progress; isProcessing is set
\* exactly while one is, so it is cleared when the send ends, with a result or
\* with an error; a request with a wrong or missing key is answered 401 and a
\* request answered 429 has the key, and neither starts a forecast or a send;
\* an authorised request that arrives while a send is running is answered 429
\* and changes nothing
OneSendAtATime ==
  /\ [](/\ Cardinality(SendsInProgress) <= 1
        /\ isProcessing <=> SendsInProgress # {}
        /\ \A s \in Sends :
              /\ snd[s].key = "bad" =>
                    (snd[s].pc = "done" /\ snd[s].resp = 401 /\ run[s] = NoRun)
              /\ snd[s].resp = 429 =>
                    (snd[s].pc = "done" /\ snd[s].key = "ok" /\ run[s] = NoRun))
  /\ [][\A s \in Sends :
          (snd[s].pc = "idle" /\ snd'[s].key = "ok" /\ SendsInProgress # {}) =>
             (snd'[s].pc = "done" /\ snd'[s].resp = 429
                /\ run' = run /\ isProcessing' = isProcessing
                /\ SendsInProgress' = SendsInProgress)]_vars

\* a /send request was answered 429 while another /send was running, and
\* that one has since ended with the flag cleared
WitnessRejectedWhileSending ==
  \E s1, s2 \in Sends :
    /\ snd[s1].resp = 429
    /\ snd[s2].kind = "send" /\ snd[s2].pc = "done" /\ snd[s2].resp \in {200, 500}
    /\ ~isProcessing

\* ---------------------------------------- HTMLGeneratorService.exportToImage
timeoutMs == 30000
TickMs == 10000

Min(a, b) == IF a < b THEN a ELSE b

Close(what, swallow) == [what |-> what, swallow |-> swallow]

\* the finally block of exportToImage: closeBrowser(browser, context), or the
\* same two guarded closes written inline; their errors are swallowed
FinallyList(br, cx) ==
  (IF cx THEN <<Close("context", TRUE)>> ELSE <<>>) \o
  (IF br THEN <<Close("browser", TRUE)>> ELSE <<>>)

\* close calls made when an operation on an open page throws: the split
\* revision closes the page in captureScreenshot's finally, the inline
\* revision has no page.close() on this path
ErrorTeardown(r, br, cx) ==
  (IF r = "split" THEN <<Close("page", TRUE)>> ELSE <<>>) \o FinallyList(br, cx)

\* close calls made after a successful capture: the split revision swallows
\* their errors, the inline revision awaits them bare
SuccessTeardown(r) ==
  <<Close("page", r = "split"), Close("context", r = "split"),
    Close("browser", r = "split")>>

\* an operation throws while the page is open
ThrowOnPage(kind) ==
  /\ pending' = kind
  /\ firstFail' = kind
  /\ closeq' = ErrorTeardown(rev, browser, context)
  /\ after' = "done"
  /\ pc' = "teardown"

\* an operation throws before any page exists
ThrowNoPage(kind) ==
  /\ pending' = kind
  /\ firstFail' = kind
  /\ closeq' = FinallyList(browser, context)
  /\ after' = "done"
  /\ pc' = "teardown"

\* exportToImage is called; chromium.launch and the 30 s timer are started
ExportStart ==
  /\ pc = "idle"
  /\ pc' = "launch"
  /\ log' = Append(log, "launch")
  /\ UNCHANGED <<trigVars, detVars, htmlVars, pipeVars, cacheVars, cropVars, unlinkResult, rev, browser, context, chromium, ctxState, pageState, closeq,
                 after, pending, firstFail, outcome, elapsed, launchPending, isVisible,
                 handle, tried, captured, tempExists, outputWritten, resVars, mailVars, waited, svcVars, retryVars>>

\* time passes while Promise.race waits for the launch
LaunchTick ==
  /\ pc = "launch"
  /\ elapsed < timeoutMs
  /\ elapsed' = Min(elapsed + TickMs, timeoutMs)
  /\ UNCHANGED <<trigVars, detVars, htmlVars, pipeVars, cacheVars, cropVars, unlinkResult, rev, pc, log, browser, context, chromium, ctxState, pageState,
                 closeq, after, pending, firstFail, outcome, launchPending, isVisible,
                 handle, tried, captured, tempExists, outputWritten, resVars, mailVars, waited, svcVars, retryVars>>

\* chromium.launch resolves first
LaunchOk ==
  /\ pc = "launch"
  /\ chromium' = "open"
  /\ pc' = "newContext"
  /\ log' = Append(log, "newContext")
  /\ UNCHANGED <<trigVars, detVars, htmlVars, pipeVars, cacheVars, cropVars, unlinkResult, rev, browser, context, ctxState, pageState, closeq, after,
                 pending, firstFail, outcome, elapsed, launchPending, isVisible, handle,
                 tried, captured, tempExists, outputWritten, resVars, mailVars, waited, svcVars, retryVars>>

\* where exportToImage goes when launchWithTimeout rejects: the error is
\* wrapped in "No se pudo iniciar Chromium: ..." and thrown
LaunchFailureIgnored == "newContext"
LaunchFailureTarget == "teardown"

LaunchRejected(stillPending) ==
  /\ pc' = LaunchFailureTarget
  /\ log' = IF LaunchFailureTarget = "teardown" THEN log ELSE Append(log, "newContext")
  /\ pending' = "LaunchError"
  /\ firstFail' = "LaunchError"
  /\ closeq' = FinallyList(browser, context)
  /\ after' = "done"
  /\ launchPending' = stillPending
  /\ UNCHANGED <<trigVars, detVars, htmlVars, pipeVars, cacheVars, cropVars, unlinkResult, rev, browser, context, chromium, ctxState, pageState, outcome,
                 elapsed, isVisible, handle, tried, captured, tempExists, outputWritten, resVars, mailVars, waited, svcVars, retryVars>>

\* chromium.launch rejects first
LaunchFail ==
  /\ pc = "launch"
  /\ LaunchRejected(FALSE)

\* the timer fires first: the race rejects, the launch itself is not cancelled
LaunchTimeout ==
  /\ pc = "launch"
  /\ elapsed >= timeoutMs
  /\ LaunchRejected(TRUE)

\* the abandoned launch completes after the race was lost: either Chromium
\* comes up, with no reference to it left anywhere, or it is given up
LateLaunch(up) ==
  /\ launchPending
  /\ launchPending' = FALSE
  /\ chromium' = IF up THEN "open" ELSE chromium
  /\ UNCHANGED <<trigVars, detVars, htmlVars, pipeVars, cacheVars, cropVars, unlinkResult, rev, pc, log, browser, context, ctxState, pageState, closeq,
                 after, pending, firstFail, outcome, elapsed, isVisible, handle, tried,
                 captured, tempExists, outputWritten, resVars, mailVars, waited, svcVars, retryVars>>

\* PlaywrightConfig.createContext
NewContextOk ==
  /\ pc = "newContext"
  /\ ctxState' = "open"
  /\ browser' = TRUE
  /\ context' = TRUE
  /\ pc' = "newPage"
  /\ log' = Append(log, "newPage")
  /\ UNCHANGED <<trigVars, detVars, htmlVars, pipeVars, cacheVars, cropVars, unlinkResult, rev, chromium, pageState, closeq, after, pending, firstFail,
                 outcome, elapsed, launchPending, isVisible, handle, tried, captured,
                 tempExists, outputWritten, resVars, mailVars, waited, svcVars, retryVars>>

\* createContext throws: the split revision closes the browser in
\* initializeBrowser's catch, the inline revision in its finally (its local
\* `browser` is already set)
NewContextFail ==
  /\ pc = "newContext"
  /\ pending' = "ContextError"
  /\ firstFail' = "ContextError"
  /\ closeq' = <<Close("browser", TRUE)>>
  /\ after' = "done"
  /\ pc' = "teardown"
  /\ browser' = (rev = "inline")
  /\ UNCHANGED <<trigVars, detVars, htmlVars, pipeVars, cacheVars, cropVars, unlinkResult, rev, log, context, chromium, ctxState, pageState, outcome,
                 elapsed, launchPending, isVisible, handle, tried, captured, tempExists,
                 outputWritten, resVars, mailVars, waited, svcVars, retryVars>>

\* context.newPage
NewPageOk ==
  /\ pc = "newPage"
  /\ pageState' = "open"
  /\ pc' = "goto"
  /\ log' = Append(log, "goto")
  /\ UNCHANGED <<trigVars, detVars, htmlVars, pipeVars, cacheVars, cropVars, unlinkResult, rev, browser, context, chromium, ctxState, closeq, after,
                 pending, firstFail, outcome, elapsed, launchPending, isVisible, handle,
                 tried, captured, tempExists, outputWritten, resVars, mailVars, waited, svcVars, retryVars>>

\* context.newPage throws or yields no page
NewPageFail ==
  /\ pc = "newPage"
  /\ ThrowNoPage("PageError")
  /\ UNCHANGED <<trigVars, detVars, htmlVars, pipeVars, cacheVars, cropVars, unlinkResult, rev, log, browser, context, chromium, ctxState, pageState,
                 outcome, elapsed, launchPending, isVisible, handle, tried, captured,
                 tempExists, outputWritten, resVars, mailVars, waited, svcVars, retryVars>>

\* page.goto, page.waitForSelector('.map-workflow', 10 s), the 1 s grace delay
SelectorFirst == <<"waitForSelector", "goto", "grace", "isVisible">>
LoadSteps == <<"goto", "waitForSelector", "grace", "isVisible">>
LoadError == [goto |-> "NavigationError", waitForSelector |-> "SelectorTimeout"]

\* page.waitForSelector('.map-workflow', { timeout: 10000 })
selectorTimeoutMs == 10000

\* time passes while waitForSelector waits for the element
SelectorTick ==
  /\ pc = "waitForSelector"
  /\ waited < selectorTimeoutMs
  /\ waited' = Min(waited + TickMs, selectorTimeoutMs)
  /\ UNCHANGED <<trigVars, detVars, htmlVars, pipeVars, cacheVars, cropVars, resVars, mailVars,
                 rev, pc, log, browser, context, chromium, ctxState, pageState, closeq,
                 after, pending, firstFail, outcome, elapsed, launchPending, isVisible,
                 handle, tried, captured, tempExists, outputWritten, unlinkResult, svcVars, retryVars>>

\* the step resolves; waitForSelector does so only before its timeout
LoadStepOk(i) ==
  /\ i \in 1..3
  /\ pc = LoadSteps[i]
  /\ LoadSteps[i] = "waitForSelector" => waited < selectorTimeoutMs
  /\ pc' = LoadSteps[i + 1]
  /\ log' = Append(log, LoadSteps[i + 1])
  /\ UNCHANGED <<trigVars, detVars, htmlVars, pipeVars, cacheVars, cropVars, unlinkResult, rev, browser, context, chromium, ctxState, pageState, closeq,
                 after, pending, firstFail, outcome, elapsed, launchPending, isVisible,
                 handle, tried, captured, tempExists, outputWritten, resVars, mailVars, waited, svcVars, retryVars>>

\* the step rejects; waitForSelector does so when its timeout expires
LoadStepFail(i) ==
  /\ i \in 1..2
  /\ pc = LoadSteps[i]
  /\ LoadSteps[i] = "waitForSelector" => waited >= selectorTimeoutMs
  /\ ThrowOnPage(LoadError[LoadSteps[i]])
  /\ UNCHANGED <<trigVars, detVars, htmlVars, pipeVars, cacheVars, cropVars, unlinkResult, rev, log, browser, context, chromium, ctxState, pageState,
                 outcome, elapsed, launchPending, isVisible, handle, tried, captured,
                 tempExists, outputWritten, resVars, mailVars, waited, svcVars, retryVars>>

\* after a capture succeeded both revisions close page, context and browser
\* before they touch the captured file
CaptureDone(strategy) ==
  /\ captured' = Append(captured, strategy)
  /\ tempExists' = TRUE
  /\ closeq' = SuccessTeardown(rev)
  /\ after' = "resample"
  /\ pc' = "teardown"

\* captureElement: element.isVisible({ timeout: 1000 }).catch(() => false)
CheckVisible(v) ==
  /\ pc = "isVisible"
  /\ v \in {"true", "false", "error"}
  /\ isVisible' = v
  /\ IF v = "true"
       THEN /\ pc' = "locatorShot"
            /\ tried' = Append(tried, "locator")
            /\ log' = Append(log, "locatorShot")
       ELSE /\ pc' = "query"
            /\ log' = Append(log, "query")
            /\ UNCHANGED tried
  /\ UNCHANGED <<trigVars, detVars, htmlVars, pipeVars, cacheVars, cropVars, unlinkResult, rev, browser, context, chromium, ctxState, pageState, closeq,
                 after, pending, firstFail, outcome, elapsed, launchPending, handle,
                 captured, tempExists, outputWritten, resVars, mailVars, waited, svcVars, retryVars>>

\* element.screenshot on the visible locator
LocatorShotOk ==
  /\ pc = "locatorShot"
  /\ CaptureDone("locator")
  /\ UNCHANGED <<trigVars, detVars, htmlVars, pipeVars, cacheVars, cropVars, unlinkResult, rev, log, browser, context, chromium, ctxState, pageState,
                 pending, firstFail, outcome, elapsed, launchPending, isVisible, handle,
                 tried, outputWritten, resVars, mailVars, waited, svcVars, retryVars>>

\* where captureElement goes when the locator screenshot throws: the catch
\* block that also receives 'Element not visible'
Shot1FailurePropagates == "throw"
Shot1FailureTarget == "query"

LocatorShotFail ==
  /\ pc = "locatorShot"
  /\ IF Shot1FailureTarget = "query"
       THEN /\ pc' = "query"
            /\ log' = Append(log, "query")
            /\ UNCHANGED <<pending, firstFail, closeq, after>>
       ELSE /\ ThrowOnPage("CaptureError")
            /\ UNCHANGED log
  /\ UNCHANGED <<trigVars, detVars, htmlVars, pipeVars, cacheVars, cropVars, unlinkResult, rev, browser, context, chromium, ctxState, pageState, outcome,
                 elapsed, launchPending, isVisible, handle, tried, captured, tempExists,
                 outputWritten, resVars, mailVars, waited, svcVars, retryVars>>

\* the fallback chosen from the result of page.$('.bg-gradient-primary')
FallbackSwapped(h) == IF h = "found" THEN "page" ELSE "handle"
FallbackStrategy(h) == IF h = "found" THEN "handle" ELSE "page"

ShotStep == [handle |-> "handleShot", page |-> "pageShot"]

\* page.$ in the catch block of captureElement
Query(h) ==
  /\ pc = "query"
  /\ h \in {"found", "null", "error"}
  /\ handle' = h
  /\ IF h = "error"
       THEN /\ ThrowOnPage("CaptureError")
            /\ UNCHANGED <<log, tried>>
       ELSE /\ pc' = ShotStep[FallbackStrategy(h)]
            /\ tried' = Append(tried, FallbackStrategy(h))
            /\ log' = Append(log, ShotStep[FallbackStrategy(h)])
            /\ UNCHANGED <<pending, firstFail, closeq, after>>
  /\ UNCHANGED <<trigVars, detVars, htmlVars, pipeVars, cacheVars, cropVars, unlinkResult, rev, browser, context, chromium, ctxState, pageState, outcome,
                 elapsed, launchPending, isVisible, captured, tempExists, outputWritten, resVars, mailVars, waited, svcVars, retryVars>>

\* elementHandle.screenshot or page.screenshot({ fullPage: true })
FallbackShotOk ==
  /\ pc \in {"handleShot", "pageShot"}
  /\ CaptureDone(tried[Len(tried)])
  /\ UNCHANGED <<trigVars, detVars, htmlVars, pipeVars, cacheVars, cropVars, unlinkResult, rev, log, browser, context, chromium, ctxState, pageState,
                 pending, firstFail, outcome, elapsed, launchPending, isVisible, handle,
                 tried, outputWritten, resVars, mailVars, waited, svcVars, retryVars>>

FallbackShotFail ==
  /\ pc \in {"handleShot", "pageShot"}
  /\ ThrowOnPage("CaptureError")
  /\ UNCHANGED <<trigVars, detVars, htmlVars, pipeVars, cacheVars, cropVars, unlinkResult, rev, log, browser, context, chromium, ctxState, pageState,
                 outcome, elapsed, launchPending, isVisible, handle, tried, captured,
                 tempExists, outputWritten, resVars, mailVars, waited, svcVars, retryVars>>

\* ------------------------------------------------------------------ teardown
\* a close call resolves with the resource closed, rejects with the resource
\* still open, or rejects although the resource is gone
CloseOutcomes == {"closed", "failedOpen", "failedGone"}
CloseName == [page |-> "page.close", context |-> "context.close", browser |-> "browser.close"]

Shut(st) == IF st = "open" THEN "closed" ELSE st

CloseStep(o) ==
  /\ pc = "teardown"
  /\ closeq # <<>>
  /\ o \in CloseOutcomes
  /\ LET h == Head(closeq)
         gone == o # "failedOpen"
         threw == o # "closed"
     IN
       /\ log' = Append(log, CloseName[h.what])
       /\ pageState' = IF gone THEN Shut(pageState) ELSE pageState
       /\ ctxState' = IF gone /\ h.what \in {"context", "browser"} THEN Shut(ctxState) ELSE ctxState
       /\ chromium' = IF gone /\ h.what = "browser" THEN Shut(chromium) ELSE chromium
       /\ IF threw /\ ~h.swallow
            THEN \* a bare await rejects: control leaves for catch and finally
                 /\ pending' = "TeardownError"
                 /\ closeq' = FinallyList(browser, context)
                 /\ after' = "done"
                 /\ UNCHANGED <<browser, context>>
            ELSE /\ closeq' = Tail(closeq)
                 /\ context' = IF ~h.swallow /\ h.what = "context" THEN FALSE ELSE context
                 /\ browser' = IF ~h.swallow /\ h.what = "browser" THEN FALSE ELSE browser
                 /\ UNCHANGED <<pending, after>>
  /\ UNCHANGED <<trigVars, detVars, htmlVars, pipeVars, cacheVars, cropVars, unlinkResult, rev, pc, firstFail, outcome, elapsed, launchPending, isVisible,
                 handle, tried, captured, tempExists, outputWritten, resVars, mailVars, waited, svcVars, retryVars>>

\* the teardown has made all its calls: the success path goes on to the
\* resample with both locals null, every other path ends the run
TeardownDone ==
  /\ pc = "teardown"
  /\ closeq = <<>>
  /\ IF after = "resample"
       THEN /\ pc' = "resample"
            /\ log' = Append(log, "resample")
            /\ browser' = FALSE
            /\ context' = FALSE
            /\ UNCHANGED outcome
       ELSE /\ pc' = "done"
            /\ outcome' = IF pending = "none" THEN "ok" ELSE pending
            /\ UNCHANGED <<log, browser, context>>
  /\ UNCHANGED <<trigVars, detVars, htmlVars, pipeVars, cacheVars, cropVars, unlinkResult, rev, chromium, ctxState, pageState, closeq, after, pending,
                 firstFail, elapsed, launchPending, isVisible, handle, tried, captured,
                 tempExists, outputWritten, resVars, mailVars, waited, svcVars, retryVars>>

\* --------------------------------------------- resample, cleanup, result log
\* sharp(tempPath).metadata(), resize, sharpen, toFile(outputPath)
ResampleOk ==
  /\ pc = "resample"
  /\ outputWritten' = TRUE
  /\ pc' = "cleanup"
  /\ log' = Append(log, "unlink")
  /\ UNCHANGED <<trigVars, detVars, htmlVars, pipeVars, cacheVars, cropVars, unlinkResult, rev, browser, context, chromium, ctxState, pageState, closeq,
                 after, pending, firstFail, outcome, elapsed, launchPending, isVisible,
                 handle, tried, captured, tempExists, resVars, mailVars, waited, svcVars, retryVars>>

ResampleFail ==
  /\ pc = "resample"
  /\ ThrowNoPage("ResampleError")
  /\ UNCHANGED <<trigVars, detVars, htmlVars, pipeVars, cacheVars, cropVars, unlinkResult, rev, log, browser, context, chromium, ctxState, pageState,
                 outcome, elapsed, launchPending, isVisible, handle, tried, captured,
                 tempExists, outputWritten, resVars, mailVars, waited, svcVars, retryVars>>

\* fs.unlink(tempPath).catch(() => {})
\* where exportToImage goes when fs.unlink rejects: the .catch swallows it
UnlinkFailureThrows == "teardown"
UnlinkFailureTarget == "logResult"

Cleanup(ok) ==
  /\ pc = "cleanup"
  /\ tempExists' = IF ok THEN FALSE ELSE tempExists
  /\ unlinkResult' = IF ok THEN "deleted" ELSE "failed"
  /\ IF ok \/ UnlinkFailureTarget = "logResult"
       THEN /\ pc' = "logResult"
            /\ log' = Append(log, "stat")
            /\ UNCHANGED <<pending, firstFail, closeq, after>>
       ELSE /\ ThrowNoPage("UnlinkError")
            /\ UNCHANGED log
  /\ UNCHANGED <<trigVars, detVars, htmlVars, pipeVars, cacheVars, cropVars, rev, browser, context, chromium, ctxState, pageState,
                 outcome, elapsed, launchPending, isVisible,
                 handle, tried, captured, outputWritten, resVars, mailVars, waited, svcVars, retryVars>>

\* fs.stat(outputPath) for the result log, then return outputImagePath
LogResultOk ==
  /\ pc = "logResult"
  /\ closeq' = FinallyList(browser, context)
  /\ after' = "done"
  /\ pc' = "teardown"
  /\ UNCHANGED <<trigVars, detVars, htmlVars, pipeVars, cacheVars, cropVars, unlinkResult, rev, log, browser, context, chromium, ctxState, pageState,
                 pending, firstFail, outcome, elapsed, launchPending, isVisible, handle,
                 tried, captured, tempExists, outputWritten, resVars, mailVars, waited, svcVars, retryVars>>

LogResultFail ==
  /\ pc = "logResult"
  /\ ThrowNoPage("StatError")
  /\ UNCHANGED <<trigVars, detVars, htmlVars, pipeVars, cacheVars, cropVars, unlinkResult, rev, log, browser, context, chromium, ctxState, pageState,
                 outcome, elapsed, launchPending, isVisible, handle, tried, captured,
                 tempExists, outputWritten, resVars, mailVars, waited, svcVars, retryVars>>

NextExport ==
  \/ ExportStart
  \/ LaunchTick
  \/ LaunchOk
  \/ LaunchFail
  \/ LaunchTimeout
  \/ \E up \in BOOLEAN : LateLaunch(up)
  \/ NewContextOk
  \/ NewContextFail
  \/ NewPageOk
  \/ NewPageFail
  \/ SelectorTick
  \/ \E i \in 1..3 : LoadStepOk(i)
  \/ \E i \in 1..2 : LoadStepFail(i)
  \/ \E v \in {"true", "false", "error"} : CheckVisible(v)
  \/ LocatorShotOk
  \/ LocatorShotFail
  \/ \E h \in {"found", "null", "error"} : Query(h)
  \/ FallbackShotOk
  \/ FallbackShotFail
  \/ \E o \in CloseOutcomes : CloseStep(o)
  \/ TeardownDone
  \/ ResampleOk
  \/ ResampleFail
  \/ \E ok \in BOOLEAN : Cleanup(ok)
  \/ LogResultOk
  \/ LogResultFail

\* one exportToImage run of either revision, with or without a stale
\* temp_capture.png left by an earlier run
InitExport ==
  /\ \E r \in Revisions, temp \in BOOLEAN : ExportState(r, temp)
  /\ TrigState(FALSE)
  /\ DetectState("elseif", <<>>, 50)
  /\ HtmlState(PlainHtml)
  /\ PipeState("absent")
  /\ CacheState
  /\ NoCrop
  /\ NoResample
  /\ NoMail
  /\ ServiceState
  /\ RetryState

SpecExport == InitExport /\ [][NextExport]_vars

Has(seq, x) == \E i \in DOMAIN seq : seq[i] = x
FirstIdx(seq, x) == IF Has(seq, x) THEN CHOOSE i \in DOMAIN seq : seq[i] = x /\ \A j \in DOMAIN seq : seq[j] = x => i <= j
                    ELSE 0
Ascending(seq, order) ==
  \A i, j \in DOMAIN seq : i < j => FirstIdx(order, seq[i]) < FirstIdx(order, seq[j])

\* C4: whatever way exportToImage ends, no Chromium process started by the run
\* is still open
NoEngineLeftOpen == pc = "done" => chromium # "open"

\* C5: in a run that opened a page, the page is closed before the context and
\* the context before the browser, on success and on failure
TeardownInOrder ==
  (pc = "done" /\ pageState # "none") =>
     /\ 0 < FirstIdx(log, "page.close")
     /\ FirstIdx(log, "page.close") < FirstIdx(log, "context.close")
     /\ FirstIdx(log, "context.close") < FirstIdx(log, "browser.close")

\* C6: a failing close never changes the outcome: the run reports the first
\* error that occurred outside teardown, and succeeds if there was none
TeardownNeverChangesOutcome ==
  pc = "done" => outcome = (IF firstFail = "none" THEN "ok" ELSE firstFail)

\* C7: the launch is attempted at most once per run and is never waited for
\* longer than 30 s; when it fails or times out the run ends with the launch
\* error and nothing else has been done: no context, page, navigation, capture
LaunchOnceBounded ==
  /\ Cardinality({i \in DOMAIN log : log[i] = "launch"}) <= 1
  /\ pc = "launch" => elapsed <= 30000
  /\ firstFail = "LaunchError" =>
        /\ log = <<"launch">>
        /\ ctxState = "none" /\ pageState = "none"
        /\ tried = <<>> /\ captured = <<>>
        /\ pc \in {"teardown", "done"}
        /\ pc = "done" => outcome = "LaunchError"

\* a run that ended because the 30 s timer fired
WitnessLaunchTimeout ==
  pc = "done" /\ outcome = "LaunchError" /\ elapsed = timeoutMs /\ log = <<"launch">>

\* C8 as stated: strategies are tried in the order locator, handle, full
\* page; the handle only when the element was not visible, the full page only
\* when there is no handle; a successful run has exactly one capture
StrategyOrderHandleOnlyIfInvisible ==
  /\ Ascending(tried, <<"locator", "handle", "page">>)
  /\ Has(tried, "handle") => isVisible # "true"
  /\ Has(tried, "page") => handle = "null"
  /\ outcome = "ok" => Len(captured) = 1

\* C8 amended: the handle is used only when the element was not reported
\* visible or the visible-element screenshot failed
StrategyOrder ==
  /\ Ascending(tried, <<"locator", "handle", "page">>)
  /\ Has(tried, "handle") =>
        /\ handle = "found"
        /\ isVisible # "true" \/ (Has(tried, "locator") /\ ~Has(captured, "locator"))
  /\ Has(tried, "page") =>
        /\ handle = "null"
        /\ isVisible # "true" \/ (Has(tried, "locator") /\ ~Has(captured, "locator"))
  /\ Has(tried, "locator") => isVisible = "true"
  /\ outcome = "ok" => Len(captured) = 1 /\ captured[1] = tried[Len(tried)]

\* a successful run whose capture came from the element handle after the
\* screenshot of the visible element had failed
WitnessHandleAfterVisibleFailed ==
  outcome = "ok" /\ isVisible = "true" /\ tried = <<"locator", "handle">>
    /\ captured = <<"handle">>

CaptureOps == {"isVisible", "locatorShot", "query", "handleShot", "pageShot"}

\* C26: within a render run the navigation comes first, then the wait for the
\* layout selector, which lasts at most 10 s, then the grace delay, then the
\* capture, each at most once; when the selector wait times out the run fails
\* and neither the grace delay nor any capture operation takes place
RenderStepsInOrder ==
  /\ \A x \in {"goto", "waitForSelector", "grace"} :
        Cardinality({i \in DOMAIN log : log[i] = x}) <= 1
  /\ Has(log, "waitForSelector") =>
        (0 < FirstIdx(log, "goto") /\ FirstIdx(log, "goto") < FirstIdx(log, "waitForSelector"))
  /\ Has(log, "grace") =>
        (0 < FirstIdx(log, "waitForSelector")
           /\ FirstIdx(log, "waitForSelector") < FirstIdx(log, "grace")
           /\ waited < selectorTimeoutMs)
  /\ \A i \in DOMAIN log : log[i] \in CaptureOps =>
        (0 < FirstIdx(log, "grace") /\ FirstIdx(log, "grace") < i)
  /\ waited <= selectorTimeoutMs
  /\ firstFail = "SelectorTimeout" =>
        /\ waited = selectorTimeoutMs
        /\ \A i \in DOMAIN log : log[i] \notin CaptureOps \cup {"grace"}
        /\ tried = <<>> /\ captured = <<>>
        /\ pc \in {"teardown", "done"}
        /\ pc = "done" => outcome = "SelectorTimeout"

\* a run that ended because the selector did not appear within 10 s
WitnessSelectorTimeout ==
  /\ pc = "done" /\ outcome = "SelectorTimeout" /\ waited = selectorTimeoutMs
  /\ Has(log, "waitForSelector") /\ ~Has(log, "grace")

\* ---------------------------------------------------------------------------
\* Colour detection (ImageProcessorService.detectColors) and alert
\* classification (HTMLGeneratorService.determineAlertLevel).
\*
\* Percentages are kept exactly, in hundredths of a percent: the value the
\* code returns after toFixed(2) is an integer number of hundredths, and the
\* unrounded value count / totalPixels * 100 is compared as a fraction.
\* ---------------------------------------------------------------------------

\* pixels the raw buffer is made of: a red, a yellow, an ocean-blue one, and
\* one whose R and G differ by exactly 50
Palette == {[r |-> 200, g |-> 50, b |-> 50], [r |-> 255, g |-> 255, b |-> 0],
            [r |-> 50, g |-> 150, b |-> 200], [r |-> 250, g |-> 200, b |-> 0]}
RunLens == {1, 31, 200, 9999, 10000}
PixelRuns == [px : Palette, n : RunLens]
Images == UNION {[1..k -> PixelRuns] : k \in 1..MaxRuns}
\* thresholds the callers pass: 0.01 (detectColorsMinimal) and 0.5 (default)
Thresholds == {1, 50}
DetRevisions == {"elseif", "twoifs"}

\* r > g * 1.5 && r > b * 1.5, with r > 150
IsRedPixelNoRatio(p) == p.r > 150
IsRedPixel(p) == p.r > 150 /\ 2 * p.r > 3 * p.g /\ 2 * p.r > 3 * p.b

\* the yellow test of each revision
IsYellowPixel(dr, p) ==
  IF dr = "elseif"
  THEN p.r > 150 /\ ~IsRedPixel(p) /\ p.g > 150 /\ p.b < 150
       /\ p.r - p.g >= -50 /\ p.r - p.g <= 50
  ELSE p.r > 150 /\ p.g > 150 /\ p.b < 150
       /\ (IF p.r >= p.g THEN p.r - p.g ELSE p.g - p.r) < 50

RECURSIVE redCount(_)
redCount(img) ==
  IF img = <<>> THEN 0
  ELSE (IF IsRedPixel(Head(img).px) THEN Head(img).n ELSE 0) + redCount(Tail(img))

RECURSIVE yellowCount(_, _)
yellowCount(dr, img) ==
  IF img = <<>> THEN 0
  ELSE (IF IsYellowPixel(dr, Head(img).px) THEN Head(img).n ELSE 0)
       + yellowCount(dr, Tail(img))

RECURSIVE totalPixels(_)
totalPixels(img) == IF img = <<>> THEN 0 ELSE Head(img).n + totalPixels(Tail(img))

\* parseFloat((count / total * 100).toFixed(2)), in hundredths: the nearest
\* hundredth, the larger one on a tie
ToFixed2(count, total) == (2 * count * 10000 + total) \div (2 * total)

\* count / total * 100 >= threshold, on the unrounded value
Reaches(count, total, thr) == count * 10000 >= thr * total

DetectColors ==
  /\ dpc = "idle"
  /\ LET total == totalPixels(image)
         red == redCount(image)
         yellow == yellowCount(detRev, image)
     IN detection' = [hasRed |-> Reaches(red, total, threshold),
                      hasYellow |-> Reaches(yellow, total, threshold),
                      redPercentage |-> ToFixed2(red, total),
                      yellowPercentage |-> ToFixed2(yellow, total),
                      totalPixels |-> total]
  /\ dpc' = "detected"
  /\ UNCHANGED <<detRev, image, threshold, alertStatus, rev, trigVars, htmlVars, pipeVars, cacheVars, cropVars, resVars, mailVars, svcVars, retryVars>>
  /\ UNCHANGED <<pc, log, browser, context, chromium, ctxState, pageState, closeq,
                 after, pending, firstFail, outcome, elapsed, launchPending,
                 isVisible, handle, tried, captured, tempExists, outputWritten,
                 unlinkResult, waited>>

\* const minThreshold, in hundredths: 0.01 in one revision, 0.5 in the other
minThreshold(r) == IF r = "inline" THEN 1 ELSE 50

LevelNames(r) ==
  IF r = "inline" THEN [red |-> "red", yellow |-> "yellow", calm |-> "white"]
  ELSE [red |-> "high", yellow |-> "moderate", calm |-> "low"]

AtOrAbove(p, t) == p >= t
Above(p, t) == p > t

determineAlertLevel(r, d) ==
  IF Above(d.redPercentage, minThreshold(r))
  THEN [level |-> LevelNames(r).red, label |-> "STRONG CURRENTS"]
  ELSE IF Above(d.yellowPercentage, minThreshold(r))
  THEN [level |-> LevelNames(r).yellow, label |-> "MODERATE CURRENTS"]
  ELSE [level |-> LevelNames(r).calm, label |-> "CALM CONDITIONS"]

DetermineAlertLevel ==
  /\ dpc = "detected"
  /\ alertStatus' = determineAlertLevel(rev, detection)
  /\ dpc' = "classified"
  /\ UNCHANGED <<detRev, image, threshold, detection, rev, trigVars, htmlVars, pipeVars, cacheVars, cropVars, resVars, mailVars, svcVars, retryVars>>
  /\ UNCHANGED <<pc, log, browser, context, chromium, ctxState, pageState, closeq,
                 after, pending, firstFail, outcome, elapsed, launchPending,
                 isVisible, handle, tried, captured, tempExists, outputWritten,
                 unlinkResult, waited>>

NextDetect ==
  \/ DetectColors
  \/ DetermineAlertLevel

InitDetect ==
  /\ \E dr \in DetRevisions, img \in Images, thr \in Thresholds :
       DetectState(dr, img, thr)
  /\ \E r \in Revisions : ExportState(r, FALSE)
  /\ TrigState(FALSE)
  /\ HtmlState(PlainHtml)
  /\ PipeState("absent")
  /\ CacheState
  /\ NoCrop
  /\ NoResample
  /\ NoMail
  /\ ServiceState
  /\ RetryState

SpecDetect == InitDetect /\ [][NextDetect]_vars

FlagsMatchReturnedPercentages ==
  dpc # "idle" =>
    /\ detection.hasRed <=> detection.redPercentage >= threshold
    /\ detection.hasYellow <=> detection.yellowPercentage >= threshold

\* C24: in a ForecastResult, whose detection is made with threshold 0.01, the
\* level is Red exactly when hasRed is true, Yellow exactly when hasRed is
\* false and hasYellow is true, and Calm exactly when both flags are false.
LevelAgreesWithFlags ==
  (dpc = "classified" /\ threshold = 1) =>
    /\ alertStatus.level = LevelNames(rev).red <=> detection.hasRed
    /\ alertStatus.level = LevelNames(rev).yellow <=>
          (~detection.hasRed /\ detection.hasYellow)
    /\ alertStatus.level = LevelNames(rev).calm <=>
          (~detection.hasRed /\ ~detection.hasYellow)

\* C11: in every result both returned percentages lie between 0 and 100 and
\* their sum is at most 100 (all in hundredths of a percent).
PercentagesWithinHundred ==
  dpc # "idle" =>
    /\ detection.redPercentage \in 0..10000
    /\ detection.yellowPercentage \in 0..10000
    /\ detection.redPercentage + detection.yellowPercentage <= 10000

\* ---------------------------------------------------------------------------
\* The per-pixel tests of detectColors, run on images of a single pixel: the
\* pixel was counted red (yellow) exactly when the red (yellow) share of the
\* image is 100 %.  Each channel takes every value in the range where a test
\* can change its answer, and samples outside it.
\* ---------------------------------------------------------------------------
RedSamples == {0, 100} \cup 145..255
GreenSamples == {0, 50} \cup 95..255
BlueSamples == {0, 149, 150, 169, 170}

InitPixel ==
  /\ \E dr \in DetRevisions, r0 \in RedSamples, g0 \in GreenSamples, b0 \in BlueSamples :
       DetectState(dr, <<[px |-> [r |-> r0, g |-> g0, b |-> b0], n |-> 1]>>, 50)
  /\ ExportState("split", FALSE)
  /\ TrigState(FALSE)
  /\ HtmlState(PlainHtml)
  /\ PipeState("absent")
  /\ CacheState
  /\ NoCrop
  /\ NoResample
  /\ NoMail
  /\ ServiceState
  /\ RetryState

NextPixel == DetectColors

SpecPixel == InitPixel /\ [][NextPixel]_vars

CountedRed == dpc = "detected" /\ detection.redPercentage = 10000
CountedYellow == dpc = "detected" /\ detection.yellowPercentage = 10000

\* C12: no pixel is counted both red and yellow, in either revision of the loop.
NoPixelInBothCategories == ~(CountedRed /\ CountedYellow)

\* a pixel counted yellow, and not red, by the revision whose two tests are
\* independent ifs
WitnessYellowOnlyTwoIfs ==
  detRev = "twoifs" /\ CountedYellow /\ ~CountedRed

\* C13: a pixel is counted red exactly when R > 150, R > 1.5 G and R > 1.5 B,
\* and yellow exactly when R > 150, G > 150, B < 150 and |R - G| <= 50.
PixelRules ==
  dpc = "detected" =>
    LET p == image[1].px
        absDiff == IF p.r >= p.g THEN p.r - p.g ELSE p.g - p.r
    IN /\ CountedRed <=> (p.r > 150 /\ 2 * p.r > 3 * p.g /\ 2 * p.r > 3 * p.b)
       /\ CountedYellow <=> (p.r > 150 /\ p.g > 150 /\ p.b < 150 /\ absDiff <= 50)

\* ---------------------------------------------------------------------------
\* HTMLGeneratorService.updateHTML: hide the three overlay regions, show the
\* one of the alert level, replace the date, write public/index.html.
\* ---------------------------------------------------------------------------
MaxUpdates == 3

FlagIds == {"red", "yellow", "white"}
\* states an overlay region can be in when updateHTML reads the document
ClassStates == {<<>>, <<"hidden">>, <<"hidden", "hidden">>}
Dates == {"Monday, November 2, 2026", "Tuesday, November 3, 2026"}
HtmlInputs ==
  {Html(cr, cy, cw, d) : cr \in ClassStates, cy \in ClassStates, cw \in ClassStates,
                         d \in {"", "Monday, November 2, 2026"}}
\* detections that give each of the three levels
SampleDetections ==
  {[NoDetection EXCEPT !.redPercentage = rp, !.yellowPercentage = yp] :
     rp \in {0, 5000}, yp \in {0, 5000}}

\* the file updateHTML reads: the inline revision reads the file it writes
templatePath(r) == IF r = "inline" THEN "index" ELSE "template"

\* html.replace(/(<div class="flag-status-item status-overlay[^"]*" id="status-X">)/g,
\*              '<div class="flag-status-item status-overlay hidden" id="status-X">')
HiddenClassAppended(classes) == classes \o <<"hidden">>
HiddenClass(classes) == <<"hidden">>

hideAllFlags(html) ==
  [html EXCEPT !.flags = [id \in FlagIds |-> HiddenClass(html.flags[id])]]

levelMap == [high |-> "red", moderate |-> "yellow", low |-> "white",
             red |-> "red", yellow |-> "yellow", white |-> "white"]

\* the id whose " hidden" is removed: status-${levelMap[level]} in one
\* revision, status-${level} in the other
ShownIdAlwaysWhite(r, level) == "white"
ShownId(r, level) == IF r = "split" THEN levelMap[level] ELSE level

\* the RegExp matches the region only when its class list is exactly
\* "flag-status-item status-overlay hidden"
showFlag(r, html, level) ==
  LET id == ShownId(r, level)
  IN IF id \in FlagIds /\ html.flags[id] = <<"hidden">>
     THEN [html EXCEPT !.flags[id] = <<>>]
     ELSE html

updateDate(html, dateString) == [html EXCEPT !.date = dateString]

UpdateHTML(d, today) ==
  /\ Len(updates) < MaxUpdates
  /\ LET status == determineAlertLevel(rev, d)
         input == files[templatePath(rev)]
         output == updateDate(showFlag(rev, hideAllFlags(input), status.level), today)
     IN /\ files' = [files EXCEPT !.index = output]
        /\ updates' = Append(updates, [level |-> status.level, date |-> today,
                                       input |-> input, output |-> output])
  /\ UNCHANGED <<trigVars, expVars, detVars, pipeVars, cacheVars, cropVars, resVars, mailVars, svcVars, retryVars>>

NextHtml == \E d \in SampleDetections, today \in Dates : UpdateHTML(d, today)

InitHtml ==
  /\ \E h \in HtmlInputs : HtmlState(h)
  /\ \E r \in Revisions : ExportState(r, FALSE)
  /\ TrigState(FALSE)
  /\ DetectState("elseif", <<>>, 50)
  /\ PipeState("absent")
  /\ CacheState
  /\ NoCrop
  /\ NoResample
  /\ NoMail
  /\ ServiceState
  /\ RetryState

SpecHtml == InitHtml /\ [][NextHtml]_vars

IsHidden(classes) == \E i \in DOMAIN classes : classes[i] = "hidden"
HiddenMarkers(classes) == Cardinality({i \in DOMAIN classes : classes[i] = "hidden"})
RegionOf(level) ==
  IF level \in {"red", "high"} THEN "red"
  ELSE IF level \in {"yellow", "moderate"} THEN "yellow" ELSE "white"

\* C14: after updateHTML, whatever state the three regions had in the input,
\* exactly one region of index.html is not hidden, and it is the region of the
\* computed alert level.
ExactlyMatchingFlagShown ==
  updates # <<>> =>
    LET last == updates[Len(updates)]
    IN /\ files.index = last.output
       /\ {id \in FlagIds : ~IsHidden(files.index.flags[id])} = {RegionOf(last.level)}

\* an update whose input had the region of the level hidden twice over and
\* another region visible
WitnessShownFromMixedInput ==
  /\ updates # <<>>
  /\ LET last == updates[Len(updates)]
     IN /\ last.input.flags[RegionOf(last.level)] = <<"hidden", "hidden">>
        /\ \E id \in FlagIds : id # RegionOf(last.level) /\ last.input.flags[id] = <<>>

\* C15: two runs on the same input with the same status and date give the same
\* output; a run on the output of a run with the same status and date gives
\* that output again; and no region of any output carries more than one
\* hidden marker, however many runs were made.
UpdateIdempotent ==
  /\ \A i, j \in DOMAIN updates :
       (updates[i].level = updates[j].level /\ updates[i].date = updates[j].date
        /\ updates[i].input = updates[j].input)
         => updates[i].output = updates[j].output
  /\ \A i, j \in DOMAIN updates :
       (updates[i].level = updates[j].level /\ updates[i].date = updates[j].date
        /\ updates[j].input = updates[i].output)
         => updates[j].output = updates[i].output
  /\ \A i \in DOMAIN updates : \A id \in FlagIds :
       HiddenMarkers(updates[i].output.flags[id]) <= 1

\* the mutation applied to its own previous output with the same status and
\* date, as the revision that reads and writes index.html does
WitnessRerunOnOwnOutput ==
  /\ Len(updates) >= 2
  /\ LET a == updates[Len(updates) - 1]
         b == updates[Len(updates)]
     IN a.level = b.level /\ a.date = b.date /\ b.input = a.output
        /\ templatePath(rev) = "index"

\* ---------------------------------------------------------------------------
\* ForecastService.getForecast, stage by stage, with readers of
\* public/final/output.png running beside it.
\* ---------------------------------------------------------------------------
MaxReads == 3

PipelineStages == <<"download", "crop", "detect", "save", "updateHTML", "export">>
StageError == [download |-> "DownloadError", crop |-> "CropError",
               detect |-> "DetectError", save |-> "SaveError",
               updateHTML |-> "TemplateError", export |-> "ExportError"]

StageIndex(name) == CHOOSE i \in DOMAIN PipelineStages : PipelineStages[i] = name

\* the stage the file write belongs to
StageOf(p) == IF p \in {"exportWriting", "exportWritten"} THEN "export" ELSE p

\* getForecast is called and awaits getImage()
GetForecast ==
  /\ fpc = "idle"
  /\ fpc' = PipelineStages[1]
  /\ started' = <<PipelineStages[1]>>
  /\ UNCHANGED <<fresult, outFile, reads, trigVars, expVars, detVars, htmlVars, cacheVars, cropVars, resVars, mailVars, svcVars, retryVars>>

\* an awaited stage resolves and the next statement starts the next stage
StageDone ==
  /\ fpc \in {PipelineStages[i] : i \in 1..(Len(PipelineStages) - 1)}
  /\ LET next == PipelineStages[StageIndex(fpc) + 1]
     IN /\ fpc' = next
        /\ started' = Append(started, next)
  /\ UNCHANGED <<fresult, outFile, reads, trigVars, expVars, detVars, htmlVars, cacheVars, cropVars, resVars, mailVars, svcVars, retryVars>>

\* what getForecast does with a stage's error: catch, log, throw error
RethrowSwallowed(p) ==
  IF StageOf(p) = "export" THEN "exportWritten"
  ELSE PipelineStages[StageIndex(StageOf(p)) + 1]
Rethrow(p) == "done"

\* an awaited stage rejects
StageThrows ==
  /\ fpc \in {"download", "crop", "detect", "save", "updateHTML", "export", "exportWriting"}
  /\ fpc' = Rethrow(fpc)
  /\ fresult' = StageError[StageOf(fpc)]
  /\ started' = IF Rethrow(fpc) \in {"done", "exportWritten"} THEN started
                ELSE Append(started, Rethrow(fpc))
  /\ UNCHANGED <<outFile, reads, trigVars, expVars, detVars, htmlVars, cacheVars, cropVars, resVars, mailVars, svcVars, retryVars>>

\* exportToImage reaches sharp(...).toFile(outputPath): the file is opened
\* at its final path and written in place
OutputWriteBegin ==
  /\ fpc = "export"
  /\ fpc' = "exportWriting"
  /\ outFile' = "partial"
  /\ UNCHANGED <<started, fresult, reads, trigVars, expVars, detVars, htmlVars, cacheVars, cropVars, resVars, mailVars, svcVars, retryVars>>

\* toFile resolves: the file is complete
OutputWriteEnd ==
  /\ fpc = "exportWriting"
  /\ fpc' = "exportWritten"
  /\ outFile' = "new"
  /\ UNCHANGED <<started, fresult, reads, trigVars, expVars, detVars, htmlVars, cacheVars, cropVars, resVars, mailVars, svcVars, retryVars>>

\* exportToImage returns; getForecast returns its ForecastResult
ForecastReturn ==
  /\ fpc = "exportWritten"
  /\ fpc' = "done"
  /\ fresult' = "ForecastResult"
  /\ UNCHANGED <<started, outFile, reads, trigVars, expVars, detVars, htmlVars, cacheVars, cropVars, resVars, mailVars, svcVars, retryVars>>

\* a reader (GET /forecast/image after fs.access succeeded, or the email
\* attachment) opens output.png and reads what is in it
ReadOutput ==
  /\ Len(reads) < MaxReads
  /\ outFile # "absent"
  /\ reads' = Append(reads, outFile)
  /\ UNCHANGED <<fpc, started, fresult, outFile, trigVars, expVars, detVars, htmlVars, cacheVars, cropVars, resVars, mailVars, svcVars, retryVars>>

NextForecast ==
  \/ GetForecast
  \/ StageDone
  \/ StageThrows
  \/ OutputWriteBegin
  \/ OutputWriteEnd
  \/ ForecastReturn
  \/ ReadOutput

InitForecast ==
  /\ \E out \in {"absent", "previous"} : PipeState(out)
  /\ TrigState(FALSE)
  /\ ExportState("inline", FALSE)
  /\ DetectState("elseif", <<>>, 50)
  /\ HtmlState(PlainHtml)
  /\ CacheState
  /\ NoCrop
  /\ NoResample
  /\ NoMail
  /\ ServiceState
  /\ RetryState

SpecForecast == InitForecast /\ [][NextForecast]_vars

IsStageError(e) == \E i \in DOMAIN PipelineStages : StageError[PipelineStages[i]] = e

\* C16: when a stage fails, getForecast rejects with that stage's error, there
\* is no ForecastResult, and no stage after the failed one was started; stages
\* are started in order, none before the previous one has finished.
FailedStageEndsRun ==
  /\ \E k \in 0..Len(PipelineStages) : started = SubSeq(PipelineStages, 1, k)
  /\ IsStageError(fresult) =>
       /\ fpc = "done"
       /\ started # <<>>
       /\ fresult = StageError[started[Len(started)]]
  /\ fresult = "ForecastResult" => (fpc = "done" /\ started = PipelineStages)

\* the save stage failed after download, crop and detection had succeeded
WitnessSaveFailed ==
  fpc = "done" /\ fresult = "SaveError" /\ started = <<"download", "crop", "detect", "save">>

\* C17: a reader of output.png never finds a partially written file: it finds
\* the complete previous image or the complete new one.
ReadersSeeWholeFile ==
  \A i \in DOMAIN reads : reads[i] \in {"previous", "new"}

MaxTime == 5
MaxCalls == 3

\* the cache serves a call when a status is cached and is younger than the
\* cache lifetime
IsFreshIgnoringAge(cached, last, t) == cached # 0
IsFresh(cached, last, t) == cached # 0 /\ t - last < CacheTtl

Tick ==
  /\ now < MaxTime
  /\ now' = now + 1
  /\ UNCHANGED <<lastStatusCheck, cachedStatus, getImageCallCount, chk, callLog,
                 trigVars, expVars, detVars, htmlVars, pipeVars, cropVars, resVars, mailVars, svcVars, retryVars>>

\* TestableForecastService.expireCache
ExpireCache ==
  /\ lastStatusCheck # 0
  /\ lastStatusCheck' = 0
  /\ UNCHANGED <<now, cachedStatus, getImageCallCount, chk, callLog,
                 trigVars, expVars, detVars, htmlVars, pipeVars, cropVars, resVars, mailVars, svcVars, retryVars>>

\* checkCurrentStatus: the cached object is returned, or the download starts
CheckCurrentStatus(c) ==
  /\ chk[c].pc = "idle"
  /\ Len(callLog) + Cardinality({d \in Callers : chk[d].pc = "downloading"}) < MaxCalls
  /\ IF IsFresh(cachedStatus, lastStatusCheck, now)
       THEN /\ chk' = [chk EXCEPT ![c].calls = @ + 1]
            /\ callLog' = Append(callLog, [caller |-> c, downloaded |-> FALSE,
                                           returned |-> cachedStatus])
            /\ UNCHANGED getImageCallCount
       ELSE /\ chk' = [chk EXCEPT ![c] = [pc |-> "downloading", calls |-> @.calls + 1]]
            /\ getImageCallCount' = getImageCallCount + 1
            /\ UNCHANGED callLog
  /\ UNCHANGED <<now, lastStatusCheck, cachedStatus,
                 trigVars, expVars, detVars, htmlVars, pipeVars, cropVars, resVars, mailVars, svcVars, retryVars>>

\* the download, crop, detection and classification finish: a new status
\* object is cached, stamped with the time, and returned
StatusComputed(c) ==
  /\ chk[c].pc = "downloading"
  /\ cachedStatus' = cachedStatus + 1
  /\ lastStatusCheck' = now
  /\ chk' = [chk EXCEPT ![c].pc = "idle"]
  /\ callLog' = Append(callLog, [caller |-> c, downloaded |-> TRUE,
                                 returned |-> cachedStatus + 1])
  /\ UNCHANGED <<now, getImageCallCount, trigVars, expVars, detVars, htmlVars, pipeVars, cropVars, resVars, mailVars, svcVars, retryVars>>

\* the download or a later step throws: nothing is cached, the call rejects
StatusFailed(c) ==
  /\ chk[c].pc = "downloading"
  /\ chk' = [chk EXCEPT ![c].pc = "idle"]
  /\ callLog' = Append(callLog, [caller |-> c, downloaded |-> TRUE, returned |-> 0])
  /\ UNCHANGED <<now, lastStatusCheck, cachedStatus, getImageCallCount,
                 trigVars, expVars, detVars, htmlVars, pipeVars, cropVars, resVars, mailVars, svcVars, retryVars>>

NextCache ==
  \/ Tick
  \/ ExpireCache
  \/ \E c \in Callers : CheckCurrentStatus(c)
  \/ \E c \in Callers : StatusComputed(c)
  \/ \E c \in Callers : StatusFailed(c)

InitCache ==
  /\ CacheState
  /\ TrigState(FALSE)
  /\ ExportState("split", FALSE)
  /\ DetectState("elseif", <<>>, 50)
  /\ HtmlState(PlainHtml)
  /\ PipeState("absent")
  /\ NoCrop
  /\ NoResample
  /\ NoMail
  /\ ServiceState
  /\ RetryState

SpecCache == InitCache /\ [][NextCache]_vars

\* C19: a call made while a status is cached and younger than the cache
\* lifetime starts no download and returns the cached object itself; a call
\* made with nothing cached, or with the cached status expired, starts exactly
\* one download; and nothing else starts a download.
DownloadOnlyWhenStale ==
  [][LET fresh == cachedStatus # 0 /\ now - lastStatusCheck < CacheTtl
         called == {c \in Callers : chk'[c].calls = chk[c].calls + 1}
     IN /\ getImageCallCount' # getImageCallCount => called # {}
        /\ \A c \in called :
             IF fresh
             THEN /\ getImageCallCount' = getImageCallCount
                  /\ cachedStatus' = cachedStatus
                  /\ Len(callLog') = Len(callLog) + 1
                  /\ callLog'[Len(callLog')].returned = cachedStatus
             ELSE getImageCallCount' = getImageCallCount + 1
    ]_vars

\* a first call that downloaded, a second call served from the cache with the
\* same object, and a third call, after expiry, that downloaded once more
WitnessHitThenExpiry ==
  /\ Len(callLog) = 3
  /\ getImageCallCount = 2
  /\ callLog[1].downloaded /\ callLog[1].returned = 1
  /\ ~callLog[2].downloaded /\ callLog[2].returned = 1
  /\ callLog[3].downloaded /\ callLog[3].returned = 2

\* ---------------------------------------------------------------------------
\* ImageProcessorService.cropImage: sharp(image).metadata(), then
\* sharp(image).extract({left: 0, top, width, height: newHeight}).toBuffer().
\* An image is its format, its width and its rows from top to bottom; a row
\* is one number standing for the pixel values of the row.
\* ---------------------------------------------------------------------------
MaxHeight == 3

Formats == {"png", "jpeg"}
\* row i of a source image
SourceRow(i) == 10 * i
SourceImages ==
  {Image(f, w, [i \in 1..h |-> SourceRow(i)]) : f \in Formats, w \in 0..2, h \in 0..MaxHeight}

\* toBuffer() encodes the extracted rows in the format of the input: PNG
\* keeps every pixel value, JPEG is compressed again and gives back pixel
\* values near the ones it was given
Encode(format, rows) ==
  IF format = "png" THEN {rows}
  ELSE {[i \in DOMAIN rows |-> rows[i] + d[i]] : d \in [DOMAIN rows -> {-1, 0, 1}]}

\* extract-area check of sharp: the area must be inside the image and not empty
NoAreaCheck(height, top, newHeight) == TRUE
ValidExtract(height, top, newHeight) == newHeight > 0 /\ top >= 0 /\ top + newHeight <= height

CropImage ==
  /\ cpc = "idle"
  /\ cpc' = "done"
  /\ LET width == srcImage.width
         height == Len(srcImage.rows)
         newHeight == height - cropTop - cropBottom
     IN IF width = 0 \/ height = 0 \/ ~ValidExtract(height, cropTop, newHeight)
        THEN cropOut' = Image("error", 0, <<>>)
        ELSE \E rows \in Encode(srcImage.format,
                                [i \in 1..newHeight |-> srcImage.rows[cropTop + i]]) :
               cropOut' = Image(srcImage.format, width, rows)
  /\ UNCHANGED <<srcImage, cropTop, cropBottom,
                 trigVars, expVars, detVars, htmlVars, pipeVars, cacheVars, resVars, mailVars, svcVars, retryVars>>

NextCrop == CropImage

InitCrop ==
  /\ \E img \in SourceImages, top \in 0..MaxHeight, bottom \in 0..MaxHeight :
       CropState(img, top, bottom)
  /\ TrigState(FALSE)
  /\ ExportState("split", FALSE)
  /\ DetectState("elseif", <<>>, 50)
  /\ HtmlState(PlainHtml)
  /\ PipeState("absent")
  /\ CacheState
  /\ NoResample
  /\ NoMail
  /\ ServiceState
  /\ RetryState

SpecCrop == InitCrop /\ [][NextCrop]_vars

\* C20: for a source of width W > 0 and height H and margins with
\* top + bottom < H, cropImage returns an image of width W and height
\* H - top - bottom whose rows are rows top .. H - bottom - 1 of the source;
\* with top = bottom = 0 the rows are those of the source.
CropKeepsRows ==
  (cpc = "done" /\ srcImage.width > 0 /\ cropTop + cropBottom < Len(srcImage.rows)) =>
    /\ cropOut.format = srcImage.format
    /\ cropOut.width = srcImage.width
    /\ Len(cropOut.rows) = Len(srcImage.rows) - cropTop - cropBottom
    /\ \A i \in DOMAIN cropOut.rows : cropOut.rows[i] = srcImage.rows[cropTop + i]
    /\ (cropTop = 0 /\ cropBottom = 0) => cropOut.rows = srcImage.rows

\* C21: cropImage does not clamp or adjust the margins: when top + bottom is
\* at least the height, or the image has no width or no height, it throws and
\* returns no image.
CropFailsWithoutClamping ==
  (cpc = "done" /\ (srcImage.width = 0 \/ Len(srcImage.rows) = 0
                    \/ cropTop + cropBottom >= Len(srcImage.rows))) =>
    (cropOut.format = "error" /\ cropOut.rows = <<>>)

\* a crop whose margins add up to exactly the height of the image
WitnessMarginsEqualHeight ==
  /\ cpc = "done"
  /\ srcImage.width > 0
  /\ cropTop > 0 /\ cropBottom > 0
  /\ cropTop + cropBottom = Len(srcImage.rows)
  /\ cropOut.format = "error"

\* ------------------------------------------- exportToImage: the resample
MaxCapture == 60

\* the width and the heights the callers pass
FinalWidths == {1500}
FinalHeights == {2257, 2500}

RECURSIVE Pow2(_)
Pow2(e) == IF e = 0 THEN 1 ELSE 2 * Pow2(e - 1)

RECURSIVE Pow2Mod(_, _)
Pow2Mod(e, n) == IF e = 0 THEN 1 % n ELSE (2 * Pow2Mod(e - 1, n)) % n

\* the binary exponent of n / d: the e with 2^e <= n / d < 2^(e+1)
RECURSIVE FloorLog2(_, _)
FloorLog2(n, d) ==
  IF n >= 2 * d THEN FloorLog2(n, 2 * d) + 1
  ELSE IF n < d THEN FloorLog2(2 * n, d) - 1
  ELSE 0

\* capturedWidth / capturedHeight is a double: the quotient rounded to a
\* 53-bit significand.  DivisionError is d times the rounding error, in units
\* of the last place: positive when the double lies above n / d
DivisionError(n, d) ==
  LET r == ((n % d) * Pow2Mod(52 - FloorLog2(n, d), d)) % d
  IN IF 2 * r > d THEN d - r ELSE 0 - r

\* fw * ch / cw lies exactly half way between two integers
IsTie(fw, cw, ch) ==
  /\ (2 * fw * ch) % cw = 0
  /\ ((2 * fw * ch) \div cw) % 2 = 1

\* round(fw * ch / cw) in exact arithmetic, halves upwards
ExactRound(fw, cw, ch) == (2 * fw * ch + cw) \div (2 * cw)

\* the double fw / aspectRatio is below k + 1/2 although fw * ch / cw is
\* k + 1/2: aspectRatio was rounded upwards by more than half a unit in the
\* last place of the result
BelowTie(fw, cw, ch) ==
  LET k == (fw * ch) \div cw
      eps == DivisionError(cw, ch)
      ea == FloorLog2(cw, ch)
      eq == FloorLog2(2 * k + 1, 2)
      m == IF ea < eq THEN ea ELSE eq
  IN eps > 0 /\ Pow2(ea - m) * eps * (2 * k + 1) > Pow2(eq - m) * cw

\* Math.round(finalWidth / aspectRatio) with aspectRatio = cw / ch, both
\* divisions in double arithmetic.  Away from a tie the rounding errors are
\* far smaller than the distance to the nearest half
MathRoundOfQuotient(fw, cw, ch) ==
  IF IsTie(fw, cw, ch) /\ BelowTie(fw, cw, ch)
  THEN (fw * ch) \div cw
  ELSE ExactRound(fw, cw, ch)

ResizeToArguments(fw, fh, cw, ch) == [width |-> fw, height |-> fh]
processAndResizeImage(fw, fh, cw, ch) ==
  [width |-> fw, height |-> MathRoundOfQuotient(fw, cw, ch)]

ProcessAndResizeImage ==
  /\ rpc = "idle"
  /\ rpc' = "done"
  /\ resized' = processAndResizeImage(finalWidth, finalHeight,
                                      capturedWidth, capturedHeight)
  /\ UNCHANGED <<capturedWidth, capturedHeight, finalWidth, finalHeight,
                 trigVars, expVars, detVars, htmlVars, pipeVars, cacheVars, cropVars, mailVars, svcVars, retryVars>>

NextResample == ProcessAndResizeImage

\* a capture of any size up to MaxCapture, or the 1860x3000 capture of the
\* 930px viewport at device scale factor 2
InitResample ==
  /\ \E fw \in FinalWidths, fh \in FinalHeights :
       \/ \E cw \in 1..MaxCapture, ch \in 1..MaxCapture : ResampleState(cw, ch, fw, fh)
       \/ ResampleState(1860, 3000, fw, fh)
  /\ TrigState(FALSE)
  /\ ExportState("split", FALSE)
  /\ DetectState("elseif", <<>>, 50)
  /\ HtmlState(PlainHtml)
  /\ PipeState("absent")
  /\ CacheState
  /\ NoCrop
  /\ NoMail
  /\ ServiceState
  /\ RetryState

SpecResample == InitResample /\ [][NextResample]_vars

\* C22 as stated: the output height is round(targetWidth * capturedHeight /
\* capturedWidth) and the output width is targetWidth, whatever height
\* argument was passed
OutputHeightIsRounded ==
  rpc = "done" =>
    /\ resized.width = finalWidth
    /\ resized.height = ExactRound(finalWidth, capturedWidth, capturedHeight)

\* C22: the output width is targetWidth and the output height is
\* round(targetWidth * capturedHeight / capturedWidth), or one pixel less when
\* that quotient is exactly half way between two integers; the height argument
\* has no influence (1860x3000 at 1500 gives 2419)
OutputHeightWithinOnePixel ==
  rpc = "done" =>
    LET exact == ExactRound(finalWidth, capturedWidth, capturedHeight)
    IN /\ resized.width = finalWidth
       /\ resized.height \in {exact - 1, exact}
       /\ ~IsTie(finalWidth, capturedWidth, capturedHeight) => resized.height = exact
       /\ (capturedWidth = 1860 /\ capturedHeight = 3000 /\ finalWidth = 1500)
            => resized.height = 2419

\* a 24x59 capture resampled to width 1500: 1500 * 59 / 24 = 3687.5
WitnessTieRoundedDown ==
  /\ rpc = "done"
  /\ capturedWidth = 24 /\ capturedHeight = 59 /\ finalWidth = 1500
  /\ resized.height = 3687

\* ------------------------------------ EmailService: the image of an email
MaxMailTime == 6
MaxGens == 3
MaxMails == 2

\* private readonly CACHE_TTL = 5 * 60 * 1000, in minutes
CACHE_TTL == 5

\* time passes
MailTick ==
  /\ mnow < MaxMailTime
  /\ mnow' = mnow + 1
  /\ UNCHANGED <<mailRev, outputGen, imageCache, attached,
                 trigVars, expVars, detVars, htmlVars, pipeVars, cacheVars, cropVars, resVars, svcVars, retryVars>>

\* forecastService.getForecast(): a run overwrites the output file
OverwriteOutput ==
  /\ outputGen < MaxGens
  /\ outputGen' = outputGen + 1
  /\ UNCHANGED <<mailRev, mnow, imageCache, attached,
                 trigVars, expVars, detVars, htmlVars, pipeVars, cacheVars, cropVars, resVars, svcVars, retryVars>>

\* cleanExpiredCache
cleanExpiredCache(cache, t) ==
  IF cache.has /\ t - cache.timestamp >= CACHE_TTL THEN NoEntry ELSE cache

\* getImageBuffer(imagePath, compress): the cached buffer while the entry is
\* younger than CACHE_TTL, else the file read from disk, which is cached
getImageBuffer(cache, t, onDisk) ==
  IF cache.has /\ t - cache.timestamp < CACHE_TTL
  THEN [buffer |-> cache.buffer, cache |-> cache]
  ELSE [buffer |-> onDisk,
        cache |-> cleanExpiredCache([has |-> TRUE, buffer |-> onDisk, timestamp |-> t], t)]

\* sendWithEmbeddedImage / sendForecastReportParallel build the attachment:
\* content: imageBuffer in the cached revision, path: imagePath in the other
AttachImage ==
  /\ Len(attached) < MaxMails
  /\ LET got == IF mailRev = "cached"
                THEN getImageBuffer(imageCache, mnow, outputGen)
                ELSE [buffer |-> outputGen, cache |-> imageCache]
     IN /\ attached' = Append(attached, [file |-> outputGen, image |-> got.buffer])
        /\ imageCache' = got.cache
  /\ UNCHANGED <<mailRev, mnow, outputGen,
                 trigVars, expVars, detVars, htmlVars, pipeVars, cacheVars, cropVars, resVars, svcVars, retryVars>>

NextMail ==
  \/ MailTick
  \/ OverwriteOutput
  \/ AttachImage

InitMail ==
  /\ \E r \in MailRevisions : MailState(r)
  /\ TrigState(FALSE)
  /\ ExportState("split", FALSE)
  /\ DetectState("elseif", <<>>, 50)
  /\ HtmlState(PlainHtml)
  /\ PipeState("absent")
  /\ CacheState
  /\ NoCrop
  /\ NoResample
  /\ ServiceState
  /\ RetryState

SpecMail == InitMail /\ [][NextMail]_vars

\* C25: every email carries the image the output file held when it was sent:
\* after the file has been overwritten by a new generation, no email attaches
\* an image of an earlier generation
MailCarriesCurrentImage ==
  \A i \in DOMAIN attached : attached[i].image = attached[i].file

\* ------------------------- InitializableService / BrowserService lifecycle
MaxInitCalls == 3

\* doInitialize: launchWithTimeout, createContext, context.newPage
InitSteps == <<"launch", "createContext", "newPage">>
DoInitRunning(k) == \E i \in DOMAIN InitSteps : doInit[k] = InitSteps[i]
NextRun == CHOOSE k \in InitRuns : doInit[k] = "none" /\ \A j \in InitRuns : doInit[j] = "none" => k <= j
RunAvailable == \E k \in InitRuns : doInit[k] = "none"

Call(kind, wasInitialized, wasRunning, promise, startedRun) ==
  [kind |-> kind, wasInitialized |-> wasInitialized, wasRunning |-> wasRunning,
   run |-> promise, started |-> startedRun]

\* initialize() past its two early returns: performInitialization is entered
\* and runs up to its first await, inside doInitialize
StartInitialization(kind) ==
  /\ RunAvailable
  /\ initializing' = TRUE
  /\ initializationPromise' = NextRun
  /\ perform' = [perform EXCEPT ![NextRun] = "pending"]
  /\ doInit' = [doInit EXCEPT ![NextRun] = "launch"]
  /\ calls' = Append(calls, Call(kind, initialized, \E k \in InitRuns : DoInitRunning(k),
                                 NextRun, TRUE))
  /\ closeReturned' = FALSE

\* initialize(options)
Initialize ==
  /\ Len(calls) < MaxInitCalls
  /\ IF initialized
       THEN /\ calls' = Append(calls, Call("initialize", TRUE,
                                           \E k \in InitRuns : DoInitRunning(k), 0, FALSE))
            /\ UNCHANGED <<initializing, initializationPromise, perform, doInit, closeReturned>>
       ELSE IF initializing /\ initializationPromise # 0
              THEN /\ calls' = Append(calls, Call("initialize", FALSE,
                                                  \E k \in InitRuns : DoInitRunning(k),
                                                  initializationPromise, FALSE))
                   /\ UNCHANGED <<initializing, initializationPromise, perform, doInit,
                                  closeReturned>>
              ELSE StartInitialization("initialize")
  /\ UNCHANGED <<initialized, engine, browserRef, contextRef, pageRef,
                 trigVars, expVars, detVars, htmlVars, pipeVars, cacheVars, cropVars,
                 resVars, mailVars, retryVars>>

\* reinitialize(options): the three fields are reset, then initialize() runs
Reinitialize ==
  /\ Len(calls) < MaxInitCalls
  /\ initialized' = FALSE
  /\ StartInitialization("reinitialize")
  /\ UNCHANGED <<engine, browserRef, contextRef, pageRef,
                 trigVars, expVars, detVars, htmlVars, pipeVars, cacheVars, cropVars,
                 resVars, mailVars, retryVars>>

\* performInitialization continues after the race settled: the try block on
\* success, the catch block otherwise, then the finally block
PerformSettles(k, success) ==
  /\ perform' = [perform EXCEPT ![k] = IF success THEN "resolved" ELSE "rejected"]
  /\ initialized' = success
  /\ initializing' = FALSE
  /\ initializationPromise' = 0

\* what the end of doInitialize does to the performInitialization that
\* started it, if that is still waiting for it
DoInitEnds(k, success) ==
  IF perform[k] = "pending"
  THEN PerformSettles(k, success)
  ELSE UNCHANGED <<perform, initialized, initializing, initializationPromise>>

\* this.browser = await PlaywrightConfig.launchWithTimeout(launchOptions)
SvcLaunchOk(k) ==
  /\ doInit[k] = "launch"
  /\ doInit' = [doInit EXCEPT ![k] = "createContext"]
  /\ engine' = [engine EXCEPT ![k] = "open"]
  /\ browserRef' = k
  /\ UNCHANGED <<initialized, initializing, initializationPromise, perform, contextRef,
                 pageRef, calls, closeReturned,
                 trigVars, expVars, detVars, htmlVars, pipeVars, cacheVars, cropVars,
                 resVars, mailVars, retryVars>>

\* this.context = await PlaywrightConfig.createContext(this.browser, ...)
SvcContextOk(k) ==
  /\ doInit[k] = "createContext"
  /\ doInit' = [doInit EXCEPT ![k] = "newPage"]
  /\ contextRef' = k
  /\ UNCHANGED <<initialized, initializing, initializationPromise, perform, engine,
                 browserRef, pageRef, calls, closeReturned,
                 trigVars, expVars, detVars, htmlVars, pipeVars, cacheVars, cropVars,
                 resVars, mailVars, retryVars>>

\* this.page = await this.context.newPage(); return { success: true, ... }
SvcPageOk(k) ==
  /\ doInit[k] = "newPage"
  /\ doInit' = [doInit EXCEPT ![k] = "returned"]
  /\ pageRef' = k
  /\ DoInitEnds(k, TRUE)
  /\ UNCHANGED <<engine, browserRef, contextRef, calls, closeReturned,
                 trigVars, expVars, detVars, htmlVars, pipeVars, cacheVars, cropVars,
                 resVars, mailVars, retryVars>>

\* one of the three awaited calls rejects: doInitialize throws
\* 'No se pudo iniciar Chromium: ...'
SvcStepFails(k) ==
  /\ DoInitRunning(k)
  /\ doInit' = [doInit EXCEPT ![k] = "threw"]
  /\ DoInitEnds(k, FALSE)
  /\ UNCHANGED <<engine, browserRef, contextRef, pageRef, calls, closeReturned,
                 trigVars, expVars, detVars, htmlVars, pipeVars, cacheVars, cropVars,
                 resVars, mailVars, retryVars>>

\* executeWithTimeout: the 30 s timer wins the race; doInitialize is not
\* cancelled
InitTimeout(k) ==
  /\ perform[k] = "pending"
  /\ DoInitRunning(k)
  /\ PerformSettles(k, FALSE)
  /\ UNCHANGED <<doInit, engine, browserRef, contextRef, pageRef, calls, closeReturned,
                 trigVars, expVars, detVars, htmlVars, pipeVars, cacheVars, cropVars,
                 resVars, mailVars, retryVars>>

\* close(): cleanup() calls doCleanup only when _initialized; doCleanup
\* closes the page, the context and the browser the fields refer to
SvcClose ==
  /\ ~closeReturned
  /\ closeReturned' = TRUE
  /\ IF initialized
       THEN /\ engine' = [k \in InitRuns |->
                            IF k = browserRef /\ engine[k] = "open" THEN "closed"
                            ELSE engine[k]]
            /\ browserRef' = 0
            /\ contextRef' = 0
            /\ pageRef' = 0
            /\ initialized' = FALSE
       ELSE UNCHANGED <<engine, browserRef, contextRef, pageRef, initialized>>
  /\ UNCHANGED <<initializing, initializationPromise, perform, doInit, calls,
                 trigVars, expVars, detVars, htmlVars, pipeVars, cacheVars, cropVars,
                 resVars, mailVars, retryVars>>

NextService ==
  \/ Initialize
  \/ Reinitialize
  \/ \E k \in InitRuns : SvcLaunchOk(k)
  \/ \E k \in InitRuns : SvcContextOk(k)
  \/ \E k \in InitRuns : SvcPageOk(k)
  \/ \E k \in InitRuns : SvcStepFails(k)
  \/ \E k \in InitRuns : InitTimeout(k)
  \/ SvcClose

InitService ==
  /\ ServiceState
  /\ RetryState
  /\ TrigState(FALSE)
  /\ ExportState("split", FALSE)
  /\ DetectState("elseif", <<>>, 50)
  /\ HtmlState(PlainHtml)
  /\ PipeState("absent")
  /\ CacheState
  /\ NoCrop
  /\ NoResample
  /\ NoMail
  /\ RetryState

SpecService == InitService /\ [][NextService]_vars

\* C28: whatever the order of initialize() and reinitialize() calls, at most
\* one doInitialize is running at a time; a call that arrives while one is
\* running starts none and gets the promise of the initialisation in
\* progress; an initialize() call on an initialised service starts none
DoInitializeSingleFlight ==
  /\ Cardinality({k \in InitRuns : DoInitRunning(k)}) <= 1
  /\ \A i \in DOMAIN calls :
       /\ calls[i].wasRunning => (~calls[i].started /\ calls[i].run # 0)
       /\ (calls[i].kind = "initialize" /\ calls[i].wasInitialized) =>
             (~calls[i].started /\ calls[i].run = 0)

\* C30: once close() has returned, and no initialisation has been started
\* since and none is still running, no Chromium launched by doInitialize is
\* open, also when the initialisation failed or timed out after the launch
ClosedServiceLeavesNoBrowser ==
  (closeReturned /\ \A k \in InitRuns : ~DoInitRunning(k)) =>
    \A k \in InitRuns : engine[k] # "open"

\* ------------------------------------------ EmailService: send with retries
\* maxRetries: number = 3
DefaultMaxRetries == 3
SendMethods == {"send", "sendWithEmbeddedImage"}

\* const waitTime = 1000 * Math.pow(2, attempt - 1)
waitTimeFixed(attempt) == 1000
waitTime(attempt) == 1000 * Pow2(attempt - 1)

\* send(options, maxRetries) or sendWithEmbeddedImage(..., maxRetries) is
\* called; the latter first fetches the image
SendCalled(m, method, r) ==
  /\ msg[m].pc = "idle"
  /\ msg' = [msg EXCEPT ![m] = [NoCall EXCEPT !.pc = IF method = "send" THEN "sendMail"
                                                     ELSE "getImageBuffer",
                                              !.method = method,
                                              !.maxRetries = r,
                                              !.attempt = 1]]
  /\ UNCHANGED <<metrics, trigVars, expVars, detVars, htmlVars, pipeVars, cacheVars,
                 cropVars, resVars, mailVars, svcVars>>

\* getImageBuffer resolves, or rejects because the image cannot be read: the
\* outer catch of sendWithEmbeddedImage rethrows
ImageFetched(m, ok) ==
  /\ msg[m].pc = "getImageBuffer"
  /\ msg' = [msg EXCEPT ![m].pc = IF ok THEN "sendMail" ELSE "threwImageError"]
  /\ UNCHANGED <<metrics, trigVars, expVars, detVars, htmlVars, pipeVars, cacheVars,
                 cropVars, resVars, mailVars, svcVars>>

\* transporter.sendMail resolves: emailsSent++, return true
TransportOk(m) ==
  /\ msg[m].pc = "sendMail"
  /\ msg' = [msg EXCEPT ![m].pc = "returnedTrue",
                        ![m].transportCalls = @ + 1]
  /\ metrics' = [metrics EXCEPT !.emailsSent = @ + 1]
  /\ UNCHANGED <<trigVars, expVars, detVars, htmlVars, pipeVars, cacheVars,
                 cropVars, resVars, mailVars, svcVars>>

\* transporter.sendMail rejects: on the last attempt emailsFailed++ and the
\* error is rethrown, otherwise the call sleeps for waitTime
TransportFails(m) ==
  /\ msg[m].pc = "sendMail"
  /\ IF msg[m].attempt = msg[m].maxRetries
       THEN /\ msg' = [msg EXCEPT ![m].pc = "threw",
                                  ![m].transportCalls = @ + 1,
                                  ![m].thrown = msg[m].attempt]
            /\ metrics' = [metrics EXCEPT !.emailsFailed = @ + 1]
       ELSE /\ msg' = [msg EXCEPT ![m].pc = "sleeping",
                                  ![m].transportCalls = @ + 1,
                                  ![m].waits = Append(@, waitTime(msg[m].attempt))]
            /\ UNCHANGED metrics
  /\ UNCHANGED <<trigVars, expVars, detVars, htmlVars, pipeVars, cacheVars,
                 cropVars, resVars, mailVars, svcVars>>

\* the sleep ends: attempt++, and the loop goes on while attempt <= maxRetries
WaitOver(m) ==
  /\ msg[m].pc = "sleeping"
  /\ msg' = [msg EXCEPT ![m].attempt = @ + 1,
                        ![m].pc = IF msg[m].attempt + 1 <= msg[m].maxRetries
                                  THEN "sendMail" ELSE "returnedFalse"]
  /\ UNCHANGED <<metrics, trigVars, expVars, detVars, htmlVars, pipeVars, cacheVars,
                 cropVars, resVars, mailVars, svcVars>>

NextRetry ==
  \/ \E m \in Messages, method \in SendMethods, r \in 1..DefaultMaxRetries :
       SendCalled(m, method, r)
  \/ \E m \in Messages, ok \in BOOLEAN : ImageFetched(m, ok)
  \/ \E m \in Messages : TransportOk(m)
  \/ \E m \in Messages : TransportFails(m)
  \/ \E m \in Messages : WaitOver(m)

InitRetry ==
  /\ RetryState
  /\ TrigState(FALSE)
  /\ ExportState("split", FALSE)
  /\ DetectState("elseif", <<>>, 50)
  /\ HtmlState(PlainHtml)
  /\ PipeState("absent")
  /\ CacheState
  /\ NoCrop
  /\ NoResample
  /\ NoMail
  /\ ServiceState

SpecRetry == InitRetry /\ [][NextRetry]_vars

\* C29: per message the transport is called at most maxRetries times; the
\* call returns true at the first success; after the k-th failed attempt that
\* has a successor the call waits 1000 * 2^(k-1) ms: 1000, 2000, ...; when
\* all attempts failed the error of the last one is thrown; emailsSent counts
\* the messages that succeeded and emailsFailed those that used up their
\* attempts
RetryContract ==
  /\ \A m \in Messages :
       /\ msg[m].transportCalls <= msg[m].maxRetries
       /\ msg[m].pc # "returnedFalse"
       /\ msg[m].pc = "returnedTrue" =>
            (msg[m].transportCalls = msg[m].attempt /\ msg[m].thrown = 0)
       /\ msg[m].waits = SubSeq(<<1000, 2000, 4000, 8000>>, 1, Len(msg[m].waits))
       /\ Len(msg[m].waits) = (IF msg[m].pc = "sleeping" THEN msg[m].attempt
                               ELSE IF msg[m].pc = "idle" THEN 0
                               ELSE msg[m].attempt - 1)
       /\ msg[m].pc = "threw" =>
            (msg[m].transportCalls = msg[m].maxRetries
               /\ msg[m].thrown = msg[m].maxRetries)
  /\ metrics.emailsSent = Cardinality({m \in Messages : msg[m].pc = "returnedTrue"})
  /\ metrics.emailsFailed =
       Cardinality({m \in Messages : msg[m].pc = "threw"})

\* one message was delivered at its third attempt, after waits of 1 s and
\* 2 s, and another used up its three attempts
WitnessThirdAttemptAndExhausted ==
  \E m1, m2 \in Messages :
    /\ msg[m1].pc = "returnedTrue" /\ msg[m1].transportCalls = 3
    /\ msg[m1].waits = <<1000, 2000>>
    /\ msg[m2].pc = "threw" /\ msg[m2].maxRetries = 3 /\ msg[m2].thrown = 3
    /\ metrics = [emailsSent |-> 1, emailsFailed |-> 1]

====
